---- MODULE Spec2Model ----
(***************************************************************************)
(* A model of the exchange profile (Base), the tradable-pair               *)
(* reconciliation (UpdateCurrencies / UpdatePairs and the connectors' Run) *)
(* and the fetch-cached-or-update pattern of the exchange wrappers.        *)
(*                                                                         *)
(* A Go string is a sequence of one-character strings, so that upper-      *)
(* casing, joining, splitting and substring search are computed the way    *)
(* the code computes them.                                                 *)
(*                                                                         *)
(* The module holds several specifications over the same variables:        *)
(*   SpecPerm   the withdraw-permission bitmask of one profile             *)
(*   SpecPairs  UpdateCurrencies called directly on one profile            *)
(*   SpecRun    one connector's Run (pair reconciliation at start-up)      *)
(*   SpecCache  FetchTicker / FetchOrderbook of one connector              *)
(*   SpecBase   Setup, SetEnabled, SetAPIURL and SetClientProxyAddress     *)
(*   SpecRead   a connector's Run with a concurrent reader of the pair sets *)
(*   SpecSet    SetCurrencies and UpdateCurrencies on short lists          *)
(*   SpecParse  the updates that parse numbers from text                   *)
(*   SpecLimit  the token buckets of the Requesters                        *)
(*   SpecStart  Start, the tasks running Run, and Wait                     *)
(*   SpecBatch  the batch UpdateTicker of Binance, ZB, HitBTC and Poloniex *)
(*   SpecBook   the depth request of ZB and its UpdateOrderbook           *)
(*   SpecCancel Gateio's CancelAllOrders                                   *)
(*   SpecFetch  repeated FetchTicker on Bitflyer, Bittrex and HitBTC       *)
(*   SpecSubmit the connectors' SubmitOrder                                *)
(*   SpecKeys   SetAPIKeys on one profile                                  *)
(* Each specification leaves the variables of the others at their idle     *)
(* values.                                                                 *)
(***************************************************************************)
EXTENDS Naturals, Sequences, FiniteSets, TLC

VARIABLES
    APIWithdrawPermissions, \* Base.APIWithdrawPermissions (uint32)
    permCall,               \* the last SupportsWithdrawPermissions call
    EnabledPairs,           \* Base.EnabledPairs  ([]string)
    AvailablePairs,         \* Base.AvailablePairs ([]string)
    cfg,                    \* the exchange's entry of the config store
    call,                   \* the last UpdateCurrencies call and its outcome
    exch,                   \* the connector under study
    autoPairUpdates,        \* GetEnabledFeatures().AutoPairUpdates
    run,                    \* position and locals of the connector's Run
    tickers,                \* ticker cache of the connector: key -> snapshot
    orderbooks,             \* orderbook cache of the connector: key -> snapshot
    fetchCall,              \* the last Fetch / Update call on the caches
    liveCount,              \* live calls made to the exchange so far
    profile,                \* Base.Enabled, the API URLs, proxies and credentials
    baseCall,               \* the last call on those fields
    lastEnabled,            \* the value last given to Base.Enabled
    reader,                 \* what a concurrent reader of the pair sets saw
    buckets,                \* the token buckets of every exchange's Requester
    limitCall,              \* the last request or refill and the buckets before it
    wg,                     \* the counter of the sync.WaitGroup given to Start
    tasks,                  \* the task each Start launched and its place in Run
    main,                   \* the caller of Start and Wait
    orderCall               \* the last call on a connector's order API and its outcome

permVars  == <<APIWithdrawPermissions, permCall>>
pairVars  == <<EnabledPairs, AvailablePairs, cfg, call>>
runVars   == <<exch, autoPairUpdates, run>>
cacheVars == <<tickers, orderbooks, fetchCall, liveCount>>
baseVars  == <<profile, baseCall, lastEnabled>>
readVars  == <<reader>>
limitVars == <<buckets, limitCall>>
startVars == <<wg, tasks, main>>
orderVars == <<orderCall>>
vars      == <<permVars, pairVars, runVars, cacheVars, baseVars, readVars,
              limitVars,
              startVars,
              orderVars>>

----------------------------------------------------------------------------
(* Strings                                                                 *)

LowerCase == <<"a","b","c","d","e","f","g","h","i","j","k","l","m",
               "n","o","p","q","r","s","t","u","v","w","x","y","z">>
UpperCase == <<"A","B","C","D","E","F","G","H","I","J","K","L","M",
               "N","O","P","Q","R","S","T","U","V","W","X","Y","Z">>

\* the upper-case letter of each lower-case letter
UpperOfChar ==
    [c \in {LowerCase[i] : i \in 1..Len(LowerCase)} |->
        UpperCase[CHOOSE i \in 1..Len(LowerCase) : LowerCase[i] = c]]

IsLowerChar(c) == c \in DOMAIN UpperOfChar

ToUpperChar(c) == IF IsLowerChar(c) THEN UpperOfChar[c] ELSE c

\* common.StringToUpper: strings.ToUpper
StringToUpper(s) == [i \in 1..Len(s) |-> ToUpperChar(s[i])]

RECURSIVE JoinStrings(_, _)
\* common.JoinStrings: strings.Join
JoinStrings(list, sep) ==
    IF Len(list) = 0 THEN <<>>
    ELSE IF Len(list) = 1 THEN list[1]
    ELSE list[1] \o sep \o JoinStrings(Tail(list), sep)

RECURSIVE IndexFrom(_, _, _)
\* index of the first occurrence of substr in s at or after i, 0 when none
IndexFrom(s, substr, i) ==
    IF i + Len(substr) - 1 > Len(s) THEN 0
    ELSE IF SubSeq(s, i, i + Len(substr) - 1) = substr THEN i
    ELSE IndexFrom(s, substr, i + 1)

\* strings.Index, counted from 1: 0 when substr does not occur in s
IndexOf(s, substr) == IndexFrom(s, substr, 1)

\* common.StringContains: strings.Contains
StringContains(s, substr) == IndexOf(s, substr) # 0

RECURSIVE SplitStrings(_, _)
\* common.SplitStrings: strings.Split with a non-empty separator
SplitStrings(s, sep) ==
    LET i == IndexOf(s, sep)
    IN  IF i = 0 THEN <<s>>
        ELSE <<SubSeq(s, 1, i - 1)>>
                 \o SplitStrings(SubSeq(s, i + Len(sep), Len(s)), sep)

Comma == <<",">>

\* common.StringDataContains: the needle occurs in the comma-joined haystack
StringDataContains(haystack, needle) ==
    StringContains(JoinStrings(haystack, Comma), needle)

\* common.StringDataCompare: some element equals the needle
StringDataCompare(haystack, needle) ==
    \E i \in 1..Len(haystack) : haystack[i] = needle

\* common.StringDataCompareUpper: some element equals the needle, ignoring case
StringDataCompareUpper(haystack, needle) ==
    \E i \in 1..Len(haystack) : StringToUpper(haystack[i]) = StringToUpper(needle)

Range(seq) == {seq[i] : i \in 1..Len(seq)}

----------------------------------------------------------------------------
(* Currency codes and pair symbols                                         *)

BTC  == <<"B","T","C">>
LTC  == <<"L","T","C">>
ETH  == <<"E","T","H">>
USD  == <<"U","S","D">>
USDT == <<"U","S","D","T">>
XBT  == <<"X","B","T">>
btc  == <<"b","t","c">>
ltc  == <<"l","t","c">>
usd  == <<"u","s","d">>
HKD  == <<"H","K","D">>
EUR  == <<"E","U","R">>
CAD  == <<"C","A","D">>
AUD  == <<"A","U","D">>
SGD  == <<"S","G","D">>
JPY  == <<"J","P","Y">>
GBP  == <<"G","B","P">>
NZD  == <<"N","Z","D">>
DOG  == <<"D","O","G">>
EBTC == <<"E","B","T","C">>
STR  == <<"S","T","R">>
XRP  == <<"X","R","P">>
Dash       == <<"-">>
Underscore == <<"_">>
EmptyString == <<>>

\* "base" + delimiter + "quote"
Symbol(base, delimiter, quote) == base \o delimiter \o quote

----------------------------------------------------------------------------
(* Withdraw permissions: a uint32 bitmask.  A mask is held as its two      *)
(* 16-bit halves, so that every bit 0..31 is representable.                *)

RECURSIVE BitAnd(_, _)
\* bitwise AND of two naturals
BitAnd(a, b) ==
    IF a = 0 \/ b = 0 THEN 0
    ELSE (a % 2) * (b % 2) + 2 * BitAnd(a \div 2, b \div 2)

\* a & b on uint32
And32(a, b) == [hi |-> BitAnd(a.hi, b.hi), lo |-> BitAnd(a.lo, b.lo)]

\* uint32(1) << i, for i in 0..31
Shl1(i) == IF i < 16 THEN [hi |-> 0, lo |-> 2 ^ i]
                     ELSE [hi |-> 2 ^ (i - 16), lo |-> 0]

NoAPIWithdrawalMethods == [hi |-> 0, lo |-> 0]

\* the bit positions set in a mask
BitsOf(m) == {i \in 0..31 :
                 IF i < 16 THEN (m.lo \div (2 ^ i)) % 2 = 1
                           ELSE (m.hi \div (2 ^ (i - 16))) % 2 = 1}

RECURSIVE SumPow(_, _)
SumPow(S, off) ==
    IF S = {} THEN 0
    ELSE LET i == CHOOSE x \in S : TRUE
         IN  2 ^ (i - off) + SumPow(S \ {i}, off)

\* the mask whose set bits are exactly S
MaskOf(S) == [hi |-> SumPow({i \in S : i >= 16}, 16),
              lo |-> SumPow({i \in S : i < 16}, 0)]

\* the bit positions the masks of the model are built from, and how many of
\* them are used
PermBitSample == <<0, 1, 17, 31, 18, 8, 16, 3>>
NumPermBits == 4
Masks == {MaskOf(S) : S \in SUBSET {PermBitSample[i] : i \in 1..NumPermBits}}

\* Base.GetWithdrawPermissions
GetWithdrawPermissions == APIWithdrawPermissions

\* a wrong test: some requested bit is granted
SupportsAnyRequestedBit(exchangePermissions, permissions) ==
    And32(permissions, exchangePermissions) # NoAPIWithdrawalMethods

\* Base.SupportsWithdrawPermissions
SupportsWithdrawPermissions(exchangePermissions, permissions) ==
    And32(permissions, exchangePermissions) = permissions

NoCall == [op |-> "none"]

PermIdle ==
    /\ APIWithdrawPermissions = NoAPIWithdrawalMethods
    /\ permCall = NoCall

InitPerm ==
    /\ APIWithdrawPermissions \in Masks
    /\ permCall = NoCall

CallSupportsWithdrawPermissions ==
    \E permissions \in Masks :
        /\ permCall' = [op          |-> "SupportsWithdrawPermissions",
                        permissions |-> permissions,
                        result      |-> SupportsWithdrawPermissions(
                                            GetWithdrawPermissions, permissions)]
        /\ UNCHANGED APIWithdrawPermissions

----------------------------------------------------------------------------
(* Base.FormatWithdrawPermissions                                          *)

NoAPIWithdrawalMethodsText ==
    <<"N", "O", "N", "E", ",", " ", "W", "E", "B", "S", "I", "T", "E", " ", "O", "N", "L", "Y">>

UnknownWithdrawalTypeText == <<"U", "N", "K", "N", "O", "W", "N">>

\* the withdrawal-method constants with their texts, in the order of the
\* switch
WithdrawalMethods ==
    <<
      \* AutoWithdrawCrypto = (1 << 0)
      [check |-> Shl1(0),
       text  |-> <<"A", "U", "T", "O", " ", "W", "I", "T", "H", "D", "R",
                   "A", "W", " ", "C", "R", "Y", "P", "T", "O">>],
      \* AutoWithdrawCryptoWithAPIPermission = (1 << 1)
      [check |-> Shl1(1),
       text  |-> <<"A", "U", "T", "O", " ", "W", "I", "T", "H", "D", "R",
                   "A", "W", " ", "C", "R", "Y", "P", "T", "O", " ", "W",
                   "I", "T", "H", " ", "A", "P", "I", " ", "P", "E", "R",
                   "M", "I", "S", "S", "I", "O", "N">>],
      \* AutoWithdrawCryptoWithSetup = (1 << 2)
      [check |-> Shl1(2),
       text  |-> <<"A", "U", "T", "O", " ", "W", "I", "T", "H", "D", "R",
                   "A", "W", " ", "C", "R", "Y", "P", "T", "O", " ", "W",
                   "I", "T", "H", " ", "S", "E", "T", "U", "P">>],
      \* WithdrawCryptoWith2FA = (1 << 3)
      [check |-> Shl1(3),
       text  |-> <<"W", "I", "T", "H", "D", "R", "A", "W", " ", "C", "R",
                   "Y", "P", "T", "O", " ", "W", "I", "T", "H", " ", "2",
                   "F", "A">>],
      \* WithdrawCryptoWithSMS = (1 << 4)
      [check |-> Shl1(4),
       text  |-> <<"W", "I", "T", "H", "D", "R", "A", "W", " ", "C", "R",
                   "Y", "P", "T", "O", " ", "W", "I", "T", "H", " ", "S",
                   "M", "S">>],
      \* WithdrawCryptoWithEmail = (1 << 5)
      [check |-> Shl1(5),
       text  |-> <<"W", "I", "T", "H", "D", "R", "A", "W", " ", "C", "R",
                   "Y", "P", "T", "O", " ", "W", "I", "T", "H", " ", "E",
                   "M", "A", "I", "L">>],
      \* WithdrawCryptoWithWebsiteApproval = (1 << 6)
      [check |-> Shl1(6),
       text  |-> <<"W", "I", "T", "H", "D", "R", "A", "W", " ", "C", "R",
                   "Y", "P", "T", "O", " ", "W", "I", "T", "H", " ", "W",
                   "E", "B", "S", "I", "T", "E", " ", "A", "P", "P", "R",
                   "O", "V", "A", "L">>],
      \* WithdrawCryptoWithAPIPermission = (1 << 7)
      [check |-> Shl1(7),
       text  |-> <<"W", "I", "T", "H", "D", "R", "A", "W", " ", "C", "R",
                   "Y", "P", "T", "O", " ", "W", "I", "T", "H", " ", "A",
                   "P", "I", " ", "P", "E", "R", "M", "I", "S", "S", "I",
                   "O", "N">>],
      \* AutoWithdrawFiat = (1 << 8)
      [check |-> Shl1(8),
       text  |-> <<"A", "U", "T", "O", " ", "W", "I", "T", "H", "D", "R",
                   "A", "W", " ", "F", "I", "A", "T">>],
      \* AutoWithdrawFiatWithAPIPermission = (1 << 9)
      [check |-> Shl1(9),
       text  |-> <<"A", "U", "T", "O", " ", "W", "I", "T", "H", "D", "R",
                   "A", "W", " ", "F", "I", "A", "T", " ", "W", "I", "T",
                   "H", " ", "A", "P", "I", " ", "P", "E", "R", "M", "I",
                   "S", "S", "I", "O", "N">>],
      \* AutoWithdrawFiatWithSetup = (1 << 10)
      [check |-> Shl1(10),
       text  |-> <<"A", "U", "T", "O", " ", "W", "I", "T", "H", "D", "R",
                   "A", "W", " ", "F", "I", "A", "T", " ", "W", "I", "T",
                   "H", " ", "S", "E", "T", "U", "P">>],
      \* WithdrawFiatWith2FA = (1 << 11)
      [check |-> Shl1(11),
       text  |-> <<"W", "I", "T", "H", "D", "R", "A", "W", " ", "F", "I",
                   "A", "T", " ", "W", "I", "T", "H", " ", "2", "F", "A">>],
      \* WithdrawFiatWithSMS = (1 << 12)
      [check |-> Shl1(12),
       text  |-> <<"W", "I", "T", "H", "D", "R", "A", "W", " ", "F", "I",
                   "A", "T", " ", "W", "I", "T", "H", " ", "S", "M", "S">>],
      \* WithdrawFiatWithEmail = (1 << 13)
      [check |-> Shl1(13),
       text  |-> <<"W", "I", "T", "H", "D", "R", "A", "W", " ", "F", "I",
                   "A", "T", " ", "W", "I", "T", "H", " ", "E", "M", "A",
                   "I", "L">>],
      \* WithdrawFiatWithWebsiteApproval = (1 << 14)
      [check |-> Shl1(14),
       text  |-> <<"W", "I", "T", "H", "D", "R", "A", "W", " ", "F", "I",
                   "A", "T", " ", "W", "I", "T", "H", " ", "W", "E", "B",
                   "S", "I", "T", "E", " ", "A", "P", "P", "R", "O", "V",
                   "A", "L">>],
      \* WithdrawFiatWithAPIPermission = (1 << 15)
      [check |-> Shl1(15),
       text  |-> <<"W", "I", "T", "H", "D", "R", "A", "W", " ", "F", "I",
                   "A", "T", " ", "W", "I", "T", "H", " ", "A", "P", "I",
                   " ", "P", "E", "R", "M", "I", "S", "S", "I", "O", "N">>],
      \* WithdrawCryptoViaWebsiteOnly = (1 << 16)
      [check |-> Shl1(16),
       text  |-> <<"W", "I", "T", "H", "D", "R", "A", "W", " ", "C", "R",
                   "Y", "P", "T", "O", " ", "V", "I", "A", " ", "W", "E",
                   "B", "S", "I", "T", "E", " ", "O", "N", "L", "Y">>],
      \* WithdrawFiatViaWebsiteOnly = (1 << 17)
      [check |-> Shl1(17),
       text  |-> <<"W", "I", "T", "H", "D", "R", "A", "W", " ", "F", "I",
                   "A", "T", " ", "V", "I", "A", " ", "W", "E", "B", "S",
                   "I", "T", "E", " ", "O", "N", "L", "Y">>]
    >>

\* the separator of strings.Join(services, " & ")
Ampersand == <<" ", "&", " ">>

DigitChars == <<"0", "1", "2", "3", "4", "5", "6", "7", "8", "9">>

RECURSIVE Digits(_)
\* a natural formatted by %v
Digits(n) ==
    IF n < 10 THEN <<DigitChars[n + 1]>>
    ELSE Digits(n \div 10) \o <<DigitChars[(n % 10) + 1]>>

\* the switch on check: the text of the matching constant, or
\* fmt.Sprintf("%s[1<<%v]", UnknownWithdrawalTypeText, i)
WithdrawText(check, i) ==
    IF \E k \in DOMAIN WithdrawalMethods : WithdrawalMethods[k].check = check
    THEN WithdrawalMethods[CHOOSE k \in DOMAIN WithdrawalMethods :
                               WithdrawalMethods[k].check = check].text
    ELSE UnknownWithdrawalTypeText \o <<"[", "1", "<", "<">> \o Digits(i)
             \o <<"]">>

RECURSIVE ServicesDescending(_, _)
\* a variant of the loop that runs from bit 31 down to bit 0
ServicesDescending(permissions, i) ==
    IF i = 32 THEN <<>>
    ELSE ServicesDescending(permissions, i + 1)
             \o (IF And32(permissions, Shl1(i)) # NoAPIWithdrawalMethods
                 THEN <<WithdrawText(Shl1(i), i)>> ELSE <<>>)

RECURSIVE Services(_, _)
\* the services appended by the loop from i up to 31
Services(permissions, i) ==
    IF i = 32 THEN <<>>
    ELSE (IF And32(permissions, Shl1(i)) # NoAPIWithdrawalMethods
          THEN <<WithdrawText(Shl1(i), i)>> ELSE <<>>)
             \o Services(permissions, i + 1)

\* a variant that joins the services whatever their number
FormatWithoutSentinel(permissions) ==
    JoinStrings(Services(permissions, 0), Ampersand)

FormatWithdrawPermissions(permissions) ==
    IF Len(Services(permissions, 0)) > 0
    THEN JoinStrings(Services(permissions, 0), Ampersand)
    ELSE NoAPIWithdrawalMethodsText

CallFormatWithdrawPermissions ==
    /\ permCall' = [op     |-> "FormatWithdrawPermissions",
                    result |-> FormatWithdrawPermissions(GetWithdrawPermissions)]
    /\ UNCHANGED APIWithdrawPermissions

----------------------------------------------------------------------------
(* The config store (config.GetExchangeConfig / UpdateExchangeConfig).     *)
(* The store is keyed by exchange name; cfg is the entry of the exchange   *)
(* under study: whether it exists, whether a write to it succeeds, and     *)
(* its two comma-joined pair strings.                                      *)

ConfigEntry(present, writable, enabledPairs, availablePairs) ==
    [present        |-> present,
     writable       |-> writable,
     EnabledPairs   |-> JoinStrings(enabledPairs, Comma),
     AvailablePairs |-> JoinStrings(availablePairs, Comma)]

\* cfg.GetExchangeConfig(e.Name) returns an error: no entry under that name
GetExchangeConfigFails(c) == ~c.present

\* cfg.UpdateExchangeConfig(exch) returns an error
UpdateExchangeConfigFails(c) == ~c.present \/ ~c.writable

----------------------------------------------------------------------------
(* Base.UpdateCurrencies (UpdatePairs in the newer wrappers)               *)

\* pair.FindPairDifferences(oldPairs, newPairs): set difference on the
\* normalised symbols, empty entries skipped
FindPairDifferences(oldPairs, newPairs) ==
    [newPairs     |-> SelectSeq(newPairs,
                        LAMBDA s : s # EmptyString
                                   /\ ~StringDataCompareUpper(oldPairs, s)),
     removedPairs |-> SelectSeq(oldPairs,
                        LAMBDA s : s # EmptyString
                                   /\ ~StringDataCompareUpper(newPairs, s))]

\* the normalisation without the filter on empty entries
NormalizeKeepEmpty(exchangeProducts) ==
    SplitStrings(StringToUpper(JoinStrings(exchangeProducts, Comma)), Comma)

\* exchange.go 678-686: join, upper-case, split on "," and drop the empty
\* entries
NormalizeProducts(exchangeProducts) ==
    SelectSeq(SplitStrings(StringToUpper(JoinStrings(exchangeProducts, Comma)),
                           Comma),
              LAMBDA s : s # EmptyString)

\* the diff taken against the available pairs whatever the flag
KnownAlwaysAvailable(enabled, enabledPairs, availablePairs) == availablePairs

\* exchange.go 691-697: the known set the diff is taken against
KnownPairs(enabled, enabledPairs, availablePairs) ==
    IF enabled THEN enabledPairs ELSE availablePairs

\* the commit test without the force flag
ShouldCommitIgnoringForce(force, newPairs, removedPairs) ==
    Len(newPairs) > 0 \/ Len(removedPairs) > 0

\* the commit test taken on every call
ShouldCommitAlways(force, newPairs, removedPairs) == TRUE

\* exchange.go 699: commit when forced or when the diff is not empty
ShouldCommit(force, newPairs, removedPairs) ==
    force \/ Len(newPairs) > 0 \/ Len(removedPairs) > 0

\* an incremental merge: the known pairs plus the new ones
MergedPairs(known, products) ==
    known \o SelectSeq(products, LAMBDA s : ~StringDataCompare(known, s))

\* exchange.go 717-723: the list stored on commit is the whole product list
CommittedPairs(known, products) == products

\* the call record of an UpdateCurrencies call
CallRecord(exchangeProducts, enabled, force, products, diff, lookup, assigned, err) ==
    [op               |-> "UpdateCurrencies",
     exchangeProducts |-> exchangeProducts,
     enabled          |-> enabled,
     force            |-> force,
     products         |-> products,
     newPairs         |-> diff.newPairs,
     removedPairs     |-> diff.removedPairs,
     lookups          |-> IF lookup THEN 1 ELSE 0,
     writes           |-> IF assigned THEN 1 ELSE 0,
     assigned         |-> assigned,
     err              |-> err,
     pre              |-> [EnabledPairs   |-> EnabledPairs,
                           AvailablePairs |-> AvailablePairs,
                           cfg            |-> cfg]]

NoDiff == [newPairs |-> <<>>, removedPairs |-> <<>>]

\* e.UpdateCurrencies(exchangeProducts, enabled, force), exchange.go 673-727.
\* (\E x \in {e} binds x to the value of e.)
UpdateCurrencies(exchangeProducts, enabled, force) ==
    IF Len(exchangeProducts) = 0
    THEN \* 674-676
         /\ call' = CallRecord(exchangeProducts, enabled, force, <<>>, NoDiff,
                               FALSE, FALSE, "exchangeProducts is empty")
         /\ UNCHANGED <<EnabledPairs, AvailablePairs, cfg>>
    ELSE
    \E products \in {NormalizeProducts(exchangeProducts)} :
    \E known \in {KnownPairs(enabled, EnabledPairs, AvailablePairs)} :
    \E diff \in {FindPairDifferences(known, products)} :
        IF ~ShouldCommit(force, diff.newPairs, diff.removedPairs)
        THEN \* 726
             /\ call' = CallRecord(exchangeProducts, enabled, force, products,
                                   diff, FALSE, FALSE, "nil")
             /\ UNCHANGED <<EnabledPairs, AvailablePairs, cfg>>
        ELSE IF GetExchangeConfigFails(cfg)
        THEN \* 701-704
             /\ call' = CallRecord(exchangeProducts, enabled, force, products,
                                   diff, TRUE, FALSE, "GetExchangeConfig")
             /\ UNCHANGED <<EnabledPairs, AvailablePairs, cfg>>
        ELSE \* 717-724
             \E stored \in {CommittedPairs(known, products)} :
             \E exchCfg \in {IF enabled
                             THEN [cfg EXCEPT !.EnabledPairs =
                                                  JoinStrings(stored, Comma)]
                             ELSE [cfg EXCEPT !.AvailablePairs =
                                                  JoinStrings(stored, Comma)]} :
                /\ EnabledPairs'   = IF enabled THEN stored ELSE EnabledPairs
                /\ AvailablePairs' = IF enabled THEN AvailablePairs ELSE stored
                /\ cfg' = IF UpdateExchangeConfigFails(cfg) THEN cfg ELSE exchCfg
                /\ call' = CallRecord(exchangeProducts, enabled, force, products,
                                      diff, TRUE, TRUE,
                                      IF UpdateExchangeConfigFails(cfg)
                                      THEN "UpdateExchangeConfig" ELSE "nil")

----------------------------------------------------------------------------
(* Base.SetCurrencies                                                      *)

\* the lower-case letter of each upper-case letter
LowerOfChar ==
    [c \in {UpperCase[i] : i \in 1..Len(UpperCase)} |->
        LowerCase[CHOOSE i \in 1..Len(UpperCase) : UpperCase[i] = c]]

ToLowerChar(c) == IF c \in DOMAIN LowerOfChar THEN LowerOfChar[c] ELSE c

\* strings.ToLower
StringToLower(s) == [i \in 1..Len(s) |-> ToLowerChar(s[i])]

\* pair.CurrencyPair
CurrencyPair(first, second) ==
    [FirstCurrency |-> first, SecondCurrency |-> second]

\* p.Display(delimiter, uppercase).String()
Display(p, format) ==
    IF format.Uppercase
    THEN StringToUpper(Symbol(p.FirstCurrency, format.Delimiter, p.SecondCurrency))
    ELSE StringToLower(Symbol(p.FirstCurrency, format.Delimiter, p.SecondCurrency))

\* exchCfg.ConfigCurrencyPairFormat of the entry that is looked up
ConfigFormats ==
    {[Delimiter |-> Dash, Uppercase |-> TRUE],
     [Delimiter |-> Underscore, Uppercase |-> FALSE]}

SetCurrenciesRecord(pairs, enabledPairs, lookup, assigned, err) ==
    [op           |-> "SetCurrencies",
     pairs        |-> pairs,
     enabledPairs |-> enabledPairs,
     lookups      |-> IF lookup THEN 1 ELSE 0,
     writes       |-> IF assigned THEN 1 ELSE 0,
     err          |-> err,
     pre          |-> [EnabledPairs   |-> EnabledPairs,
                       AvailablePairs |-> AvailablePairs,
                       cfg            |-> cfg]]

\* a variant that looks the entry up and stores the list before it tests
\* the list for emptiness
SetCurrenciesTestingLast(pairs, enabledPairs, format) ==
    IF GetExchangeConfigFails(cfg)
    THEN /\ call' = SetCurrenciesRecord(pairs, enabledPairs, TRUE, FALSE,
                                        "GetExchangeConfig")
         /\ UNCHANGED <<EnabledPairs, AvailablePairs, cfg>>
    ELSE \E pairsStr \in {[x \in 1..Len(pairs) |-> Display(pairs[x], format)]} :
            /\ EnabledPairs' = IF enabledPairs THEN pairsStr ELSE EnabledPairs
            /\ AvailablePairs' = IF enabledPairs THEN AvailablePairs ELSE pairsStr
            /\ UNCHANGED cfg
            /\ call' = SetCurrenciesRecord(pairs, enabledPairs, TRUE, TRUE,
                           IF Len(pairs) = 0 THEN "pairs is empty" ELSE "nil")

\* e.SetCurrencies(pairs, enabledPairs), exchange.go 643-669
SetCurrencies(pairs, enabledPairs, format) ==
    IF Len(pairs) = 0
    THEN \* 644-646
         /\ call' = SetCurrenciesRecord(pairs, enabledPairs, FALSE, FALSE,
                                        "pairs is empty")
         /\ UNCHANGED <<EnabledPairs, AvailablePairs, cfg>>
    ELSE IF GetExchangeConfigFails(cfg)
    THEN \* 648-652
         /\ call' = SetCurrenciesRecord(pairs, enabledPairs, TRUE, FALSE,
                                        "GetExchangeConfig")
         /\ UNCHANGED <<EnabledPairs, AvailablePairs, cfg>>
    ELSE \* 654-668
         \E pairsStr \in {[x \in 1..Len(pairs) |-> Display(pairs[x], format)]} :
         \E exchCfg \in {IF enabledPairs
                         THEN [cfg EXCEPT !.EnabledPairs =
                                              JoinStrings(pairsStr, Comma)]
                         ELSE [cfg EXCEPT !.AvailablePairs =
                                              JoinStrings(pairsStr, Comma)]} :
            /\ EnabledPairs' = IF enabledPairs THEN pairsStr ELSE EnabledPairs
            /\ AvailablePairs' = IF enabledPairs THEN AvailablePairs ELSE pairsStr
            /\ cfg' = IF UpdateExchangeConfigFails(cfg) THEN cfg ELSE exchCfg
            /\ call' = SetCurrenciesRecord(pairs, enabledPairs, TRUE, TRUE,
                           IF UpdateExchangeConfigFails(cfg)
                           THEN "UpdateExchangeConfig" ELSE "nil")

----------------------------------------------------------------------------
(* The profile's scalar fields: Enabled, the API URLs and the proxy held   *)
(* by the Requester and by the Websocket                                   *)

\* config.APIURLNonDefaultMessage
APIURLNonDefaultMessage == "NON_DEFAULT_HTTP_LINK_TO_EXCHANGE_API"

\* the URLs a configuration entry can carry
ConfigURLs == {"", APIURLNonDefaultMessage, "https://api.one"}

NoProxy == ""

\* the addresses handed to SetClientProxyAddress; the second has an
\* invalid escape, which url.Parse refuses
ProxyAddresses == {NoProxy, "%zz", "http://proxy.one:8080"}

UrlParseFails(addr) == addr = "%zz"

\* the profile after SetDefaults
DefaultBase ==
    [Enabled         |-> TRUE,
     APIUrl          |-> "https://api.default",
     APIUrlSecondary |-> "https://api2.default",
     RequesterProxy  |-> NoProxy,
     WebsocketProxy  |-> NoProxy,
     HasWebsocket    |-> FALSE]

Outcome(b, err) == [after |-> b, err |-> err]

\* Requester.SetProxy: stores the proxy, or fails and stores nothing
RequesterSetProxy(b, addr, ok) ==
    IF ok THEN Outcome([b EXCEPT !.RequesterProxy = addr], "nil")
          ELSE Outcome(b, "Requester.SetProxy")

\* Websocket.SetProxyAddress: stores the address, or fails and stores nothing
WebsocketSetProxyAddress(b, addr, ok) ==
    IF ok THEN Outcome([b EXCEPT !.WebsocketProxy = addr], "nil")
          ELSE Outcome(b, "Websocket.SetProxyAddress")

SetClientProxyAddressOutcome(b, addr, requesterOK, websocketOK) ==
    IF addr = NoProxy THEN Outcome(b, "nil")
    ELSE IF UrlParseFails(addr) THEN Outcome(b, "url.Parse")
    ELSE LET r == RequesterSetProxy(b, addr, requesterOK)
         IN  IF r.err # "nil" THEN r
             ELSE IF r.after.HasWebsocket
                  THEN LET w == WebsocketSetProxyAddress(r.after, addr, websocketOK)
                       IN  Outcome(w.after, w.err)
                  ELSE r

\* a variant that lets the placeholder overwrite the profile's URLs
SetAPIURLOverwriting(b, ec) ==
    IF ec.APIURL = "" \/ ec.APIURLSecondary = ""
    THEN Outcome(b, "SetAPIURL error variable zero value")
    ELSE Outcome([b EXCEPT !.APIUrl = ec.APIURL,
                           !.APIUrlSecondary = ec.APIURLSecondary], "nil")

SetAPIURLOutcome(b, ec) ==
    IF ec.APIURL = "" \/ ec.APIURLSecondary = ""
    THEN Outcome(b, "SetAPIURL error variable zero value")
    ELSE Outcome([b EXCEPT
                    !.APIUrl = IF ec.APIURL # APIURLNonDefaultMessage
                               THEN ec.APIURL ELSE @,
                    !.APIUrlSecondary =
                               IF ec.APIURLSecondary # APIURLNonDefaultMessage
                               THEN ec.APIURLSecondary ELSE @], "nil")

\* SetupDefaults: enables the profile, then applies the endpoint URLs and
\* the proxy of the configuration entry, stopping at the first error
SetupDefaults(b, ec, requesterOK, websocketOK) ==
    LET u == SetAPIURLOutcome([b EXCEPT !.Enabled = TRUE], ec)
    IN  IF u.err # "nil" THEN u
        ELSE SetClientProxyAddressOutcome(u.after, ec.ProxyAddress,
                                          requesterOK, websocketOK)

\* WebsocketSetup: gives the profile its Websocket
WebsocketSetup(b) == Outcome([b EXCEPT !.HasWebsocket = TRUE], "nil")

\* a variant that applies the defaults whatever the entry's Enabled flag
SetupIgnoringEnabled(b, ec, requesterOK, websocketOK) ==
    LET d == SetupDefaults(b, ec, requesterOK, websocketOK)
    IN  IF d.err # "nil" THEN d ELSE WebsocketSetup(d.after)

SetupOutcome(b, ec, requesterOK, websocketOK) ==
    IF ~ec.Enabled
    THEN Outcome([b EXCEPT !.Enabled = FALSE], "nil")
    ELSE LET d == SetupDefaults(b, ec, requesterOK, websocketOK)
         IN  IF d.err # "nil" THEN d ELSE WebsocketSetup(d.after)

ExchangeConfigs ==
    [Enabled : BOOLEAN, APIURL : ConfigURLs, APIURLSecondary : ConfigURLs,
     ProxyAddress : ProxyAddresses]

NoConfig ==
    [Enabled |-> FALSE, APIURL |-> "", APIURLSecondary |-> "",
     ProxyAddress |-> NoProxy]

\* the record of a call on the profile: its arguments, its error, the value
\* it returned and the profile it started from
BaseCall(op, addr, ec, err, result) ==
    [op |-> op, addr |-> addr, ec |-> ec, err |-> err, result |-> result,
     pre |-> profile]

SetClientProxyAddress(addr, requesterOK, websocketOK) ==
    \E out \in {SetClientProxyAddressOutcome(profile, addr, requesterOK, websocketOK)} :
        /\ profile' = out.after
        /\ baseCall' = BaseCall("SetClientProxyAddress", addr, NoConfig,
                                out.err, FALSE)
        /\ UNCHANGED lastEnabled

SetAPIURL(ec) ==
    \E out \in {SetAPIURLOutcome(profile, ec)} :
        /\ profile' = out.after
        /\ baseCall' = BaseCall("SetAPIURL", NoProxy, ec, out.err, FALSE)
        /\ UNCHANGED lastEnabled

Setup(ec, requesterOK, websocketOK) ==
    \E out \in {SetupOutcome(profile, ec, requesterOK, websocketOK)} :
        /\ profile' = out.after
        /\ baseCall' = BaseCall("Setup", NoProxy, ec, out.err, FALSE)
        /\ lastEnabled' = ec.Enabled

SetEnabled(enabled) ==
    /\ profile' = [profile EXCEPT !.Enabled = enabled]
    /\ baseCall' = BaseCall("SetEnabled", NoProxy, NoConfig, "nil", enabled)
    /\ lastEnabled' = enabled

IsEnabled ==
    /\ baseCall' = BaseCall("IsEnabled", NoProxy, NoConfig, "nil", profile.Enabled)
    /\ UNCHANGED <<profile, lastEnabled>>

----------------------------------------------------------------------------
(* A reader of the pair sets that runs beside the reconciliation.  The     *)
(* profile has no lock: a read that falls between two writes sees what the *)
(* first left, and a read that overlaps a write of a slice may see the     *)
(* pointer of one value with the length of the other.                      *)

NoReads ==
    [readEnabled   |-> FALSE, enabled   |-> <<>>,
     readAvailable |-> FALSE, available |-> <<>>]

\* an element read past the end of a slice
Garbage == <<"?">>

\* one slice header's pointer read with the other's length
Torn(pointer, length) ==
    [i \in 1..Len(length) |-> IF i <= Len(pointer) THEN pointer[i] ELSE Garbage]

\* the values a read of a slice can return while the slice is assigned
RacingReads(old, new) == {old, new, Torn(new, old), Torn(old, new)}

\* GetEnabledCurrencies, between two steps of the reconciliation
GetEnabledCurrencies ==
    /\ ~reader.readEnabled
    /\ reader' = [reader EXCEPT !.readEnabled = TRUE, !.enabled = EnabledPairs]

\* GetAvailableCurrencies, between two steps of the reconciliation
GetAvailableCurrencies ==
    /\ ~reader.readAvailable
    /\ reader' = [reader EXCEPT !.readAvailable = TRUE,
                                !.available = AvailablePairs]

\* GetEnabledCurrencies, while write assigns e.EnabledPairs
GetEnabledCurrenciesDuring(write) ==
    /\ ~reader.readEnabled
    /\ write
    /\ \E seen \in RacingReads(EnabledPairs, EnabledPairs') :
          reader' = [reader EXCEPT !.readEnabled = TRUE, !.enabled = seen]

\* GetAvailableCurrencies, while write assigns e.AvailablePairs
GetAvailableCurrenciesDuring(write) ==
    /\ ~reader.readAvailable
    /\ write
    /\ \E seen \in RacingReads(AvailablePairs, AvailablePairs') :
          reader' = [reader EXCEPT !.readAvailable = TRUE, !.available = seen]

----------------------------------------------------------------------------
(* The Requester's rate limiters.  Each SetDefaults builds one Requester   *)
(* with request.NewRateLimit(interval, authRate) and                       *)
(* request.NewRateLimit(interval, unauthRate).                             *)

\* the exchanges whose Requesters are modelled, and the two limiters of each
LimitedExchanges == {"Binance", "ZB"}
Limiters == {"auth", "unauth"}

\* the requests each limiter lets through per interval (the connectors'
\* authRate and unauthRate constants, scaled down)
LimiterRates ==
    [e \in LimitedExchanges |->
        IF e = "Binance" THEN [auth |-> 2, unauth |-> 1]
                         ELSE [auth |-> 1, unauth |-> 2]]

\* at most MaxRequests requests are made on one limiter
MaxRequests == 3

\* request.New: both buckets full, nothing waiting
NewRequester(authRate, unauthRate) ==
    [l \in Limiters |->
        [rate    |-> IF l = "auth" THEN authRate ELSE unauthRate,
         tokens  |-> IF l = "auth" THEN authRate ELSE unauthRate,
         waiting |-> 0,
         issued  |-> 0,
         failed  |-> 0]]

LimitCall(op, e, l) == [op |-> op, e |-> e, l |-> l, pre |-> buckets]

\* a variant that fails the request when its bucket is empty
TakeOrFail(b) ==
    IF b.tokens > 0
    THEN [b EXCEPT !.tokens = @ - 1, !.issued = @ + 1]
    ELSE [b EXCEPT !.failed = @ + 1]

\* a request arrives at a bucket: it takes a token and is issued, or waits
TakeOrWait(b) ==
    IF b.tokens > 0
    THEN [b EXCEPT !.tokens = @ - 1, !.issued = @ + 1]
    ELSE [b EXCEPT !.waiting = @ + 1]

\* the interval of a bucket elapses: the bucket is full again and the
\* waiting requests take its tokens, as many as there are tokens
Refilled(b) ==
    IF b.waiting <= b.rate
    THEN [b EXCEPT !.tokens = b.rate - b.waiting, !.waiting = 0,
                   !.issued = @ + b.waiting]
    ELSE [b EXCEPT !.tokens = 0, !.waiting = @ - b.rate,
                   !.issued = @ + b.rate]

\* Requester.SendPayload on exchange e, authenticated or not
SendPayload(e, l) ==
    /\ buckets[e][l].issued + buckets[e][l].waiting + buckets[e][l].failed
          < MaxRequests
    /\ buckets' = [buckets EXCEPT ![e][l] = TakeOrWait(@)]
    /\ limitCall' = LimitCall("SendPayload", e, l)

\* the refill of one bucket
Refill(e, l) ==
    /\ buckets[e][l].tokens < buckets[e][l].rate
    /\ buckets' = [buckets EXCEPT ![e][l] = Refilled(@)]
    /\ limitCall' = LimitCall("Refill", e, l)

----------------------------------------------------------------------------
(* Idle values of the variable groups                                      *)

PairsIdle ==
    /\ EnabledPairs = <<>>
    /\ AvailablePairs = <<>>
    /\ cfg = ConfigEntry(FALSE, FALSE, <<>>, <<>>)
    /\ call = NoCall

RunIdle ==
    /\ exch = "none"
    /\ autoPairUpdates = FALSE
    /\ run = [pc |-> 0]

CacheIdle ==
    /\ tickers = <<>>
    /\ orderbooks = <<>>
    /\ fetchCall = NoCall
    /\ liveCount = 0

BaseIdle ==
    /\ profile = DefaultBase
    /\ baseCall = NoCall
    /\ lastEnabled = TRUE

ReadIdle == reader = NoReads

OrderIdle == orderCall = NoCall

\* the exchanges the caller starts
StartedExchanges == {"Binance", "OKEX", "ZB"}

\* a task not launched, and the caller outside Start
NoTask == [state |-> "none", pc |-> 0, failed |-> "none", dones |-> 0]
NoExchange == "none"

StartIdle ==
    /\ wg = 0
    /\ tasks = [e \in StartedExchanges |-> NoTask]
    /\ main = [started |-> {}, cur |-> NoExchange, wait |-> "none"]

LimitIdle ==
    /\ buckets = [e \in LimitedExchanges |-> NewRequester(1, 1)]
    /\ limitCall = NoCall

----------------------------------------------------------------------------
(* SpecPerm: SupportsWithdrawPermissions on a profile with any granted mask *)

InitPermSpec ==
    InitPerm /\ PairsIdle /\ RunIdle /\ CacheIdle /\ BaseIdle /\ ReadIdle
    /\ LimitIdle
    /\ StartIdle
    /\ OrderIdle

NextPerm ==
    \/ CallSupportsWithdrawPermissions
          /\ UNCHANGED <<pairVars, runVars, cacheVars, baseVars, readVars,
                         limitVars, startVars, orderVars>>
    \/ CallFormatWithdrawPermissions
          /\ UNCHANGED <<pairVars, runVars, cacheVars, baseVars, readVars,
                         limitVars, startVars, orderVars>>

SpecPerm == InitPermSpec /\ [][NextPerm]_vars

----------------------------------------------------------------------------
(* SpecPairs: UpdateCurrencies called on a profile loaded from its config  *)

\* every run of consecutive entries of seq, the empty one included
Slices(seq) ==
    {<<>>} \cup {SubSeq(seq, i, j) : i \in 1..Len(seq), j \in 1..Len(seq)}

\* what the exchange may list, in the spelling it reports; the product lists
\* of the model are the slices of the first NumListed entries
ProductCatalogue ==
    <<Symbol(btc, Underscore, usd),
      Symbol(ltc, Underscore, usd),
      EmptyString,
      Symbol(ETH, Underscore, USD),
      Symbol(BTC, Underscore, USD) \o Comma \o Symbol(ltc, Underscore, usd),
      Symbol(ltc, Underscore, usd)>>
NumListed == 4
ProductLists == Slices(SubSeq(ProductCatalogue, 1, NumListed))

\* the pair lists a profile starts with
InitKnownLists ==
    {<<Symbol(BTC, Underscore, USD), Symbol(ETH, Underscore, USD)>>,
     <<Symbol(BTC, Underscore, USD), Symbol(LTC, Underscore, USD)>>}

\* the profile's lists are the ones its config entry holds
InitProfile(enabledLists, availableLists) ==
    /\ EnabledPairs \in enabledLists
    /\ AvailablePairs \in availableLists
    /\ \E present \in BOOLEAN, writable \in BOOLEAN :
          /\ (~present => ~writable)
          /\ cfg = ConfigEntry(present, writable, EnabledPairs, AvailablePairs)
    /\ call = NoCall

InitPairs ==
    /\ InitProfile(InitKnownLists, InitKnownLists)
    /\ PermIdle /\ RunIdle /\ CacheIdle /\ BaseIdle /\ ReadIdle
    /\ LimitIdle
    /\ StartIdle
    /\ OrderIdle

CallUpdateCurrencies ==
    \E exchangeProducts \in ProductLists, enabled \in BOOLEAN, force \in BOOLEAN :
        UpdateCurrencies(exchangeProducts, enabled, force)

NextPairs ==
    /\ CallUpdateCurrencies
    /\ UNCHANGED <<permVars, runVars, cacheVars, baseVars, readVars,
                   limitVars, startVars, orderVars>>

SpecPairs == InitPairs /\ [][NextPairs]_vars


----------------------------------------------------------------------------
(* The connectors' Run: pair reconciliation at start-up                    *)

\* Run tests the stored pair format, resets the enabled pairs, and only
\* then fetches (Binance, HitBTC, Kraken, OKCoin, WEX)
ResetFirst == {"Binance", "HitBTC", "Kraken", "OKCoin", "WEX"}
\* Run fetches, and on success tests the format and resets (Bittrex, ANX)
FetchFirst == {"Bittrex", "ANX"}
\* Run calls UpdateTradablePairs(false) when AutoPairUpdates is set
AutoOnly == {"ZB", "Gateio", "CoinbasePro", "Bitstamp"}
\* Run fetches and calls UpdateCurrencies(pairs, false, false)
FetchOnly == {"GateioOld", "OKEX"}
Connectors ==
    ResetFirst \cup FetchFirst \cup AutoOnly \cup FetchOnly
        \cup {"Poloniex", "Bitflyer"}

\* the connectors whose fetch and update are their UpdateTradablePairs
HasUpdateTradablePairs == ResetFirst \cup AutoOnly \cup {"Poloniex"}

\* the steps of e's Run, in program order
Steps(e) ==
    CASE e \in ResetFirst  -> <<"detect", "reset", "gate", "fetch", "update">>
      [] e \in FetchFirst  -> <<"fetch", "detect", "reset", "update">>
      [] e = "Poloniex"    -> <<"detect", "gate", "fetch", "update">>
      [] e \in AutoOnly    -> <<"gate", "fetch", "update">>
      [] e \in FetchOnly   -> <<"fetch", "update">>
      [] e = "Bitflyer"    -> <<"gate">>

\* the delimiter of e's pair symbols
Delimiter(e) ==
    IF e \in {"Binance", "HitBTC", "Kraken", "Bittrex", "CoinbasePro"}
    THEN Dash ELSE Underscore

\* a Run that resets every connector to the one pair BTC/USD
SingleDefaultPair(e) == <<Symbol(BTC, Delimiter(e), USD)>>

\* the enabledPairs literal of e's Run
DefaultEnabledPairs(e) ==
    CASE e = "Binance" -> <<Symbol(BTC, Dash, USDT)>>
      [] e = "HitBTC"  -> <<Symbol(BTC, Dash, USD)>>
      [] e = "Kraken"  -> <<Symbol(XBT, Dash, USD)>>
      [] e = "OKCoin"  -> <<Symbol(btc, Underscore, usd)>>
      [] e = "Bittrex" -> <<Symbol(USDT, Dash, BTC)>>
      [] e = "WEX"     -> <<Symbol(BTC, Underscore, USD),
                            Symbol(LTC, Underscore, USD),
                            Symbol(LTC, Underscore, BTC),
                            Symbol(ETH, Underscore, USD)>>
      [] e = "ANX"     ->
            <<JoinStrings(<<Symbol(BTC, Underscore, USD),
                            Symbol(BTC, Underscore, HKD),
                            Symbol(BTC, Underscore, EUR),
                            Symbol(BTC, Underscore, CAD),
                            Symbol(BTC, Underscore, AUD),
                            Symbol(BTC, Underscore, SGD),
                            Symbol(BTC, Underscore, JPY),
                            Symbol(BTC, Underscore, GBP),
                            Symbol(BTC, Underscore, NZD),
                            Symbol(LTC, Underscore, BTC),
                            Symbol(DOG, Underscore, EBTC),
                            Symbol(STR, Underscore, BTC),
                            Symbol(XRP, Underscore, BTC)>>, Comma)>>

\* the test that sets forceUpdate / forceUpgrade
ForceDetected(e, enabledPairs, availablePairs) ==
    IF e = "Poloniex"
    THEN StringDataCompare(availablePairs, Symbol(BTC, Underscore, USDT))
    ELSE \/ ~StringDataContains(enabledPairs, Delimiter(e))
         \/ ~StringDataContains(availablePairs, Delimiter(e))

\* what e's UpdateTradablePairs returns when FetchTradablePairs fails
ReturnedOnFetchError(e) == IF e = "ZB" THEN "nil" ELSE "error"

\* Base.UpdatePairs of the newer wrappers: the reconciliation of
\* UpdateCurrencies
UpdatePairs(exchangeProducts, enabled, force) ==
    UpdateCurrencies(exchangeProducts, enabled, force)

\* the step Run is at: "start" before it is entered, "returned" after it
Step ==
    IF run.pc = 0 THEN "start"
    ELSE IF run.pc \in 1..Len(Steps(exch)) THEN Steps(exch)[run.pc]
    ELSE "returned"

Returned(r) == [r EXCEPT !.pc = Len(Steps(exch)) + 1]
Advanced(r) == [r EXCEPT !.pc = r.pc + 1]

\* Run is entered
RunBegin ==
    /\ Step = "start"
    /\ run' = [pc          |-> 1,
               forceUpdate |-> FALSE,
               resets      |-> 0,
               fetch       |-> "none",
               pairs       |-> <<>>,
               updates     |-> 0,
               utp         |-> "none",
               pre         |-> [EnabledPairs   |-> EnabledPairs,
                                AvailablePairs |-> AvailablePairs,
                                cfg            |-> cfg]]
    /\ UNCHANGED <<pairVars, exch, autoPairUpdates>>

\* the test of the stored pairs against the delimiter
RunDetect ==
    /\ Step = "detect"
    /\ run' = Advanced([run EXCEPT !.forceUpdate =
                            ForceDetected(exch, EnabledPairs, AvailablePairs)])
    /\ UNCHANGED <<pairVars, exch, autoPairUpdates>>

\* the reset of the enabled pairs, done when the test set the flag
RunReset ==
    /\ Step = "reset"
    /\ IF run.forceUpdate
       THEN /\ IF exch \in FetchFirst
               THEN UpdateCurrencies(DefaultEnabledPairs(exch), TRUE, TRUE)
               ELSE UpdatePairs(DefaultEnabledPairs(exch), TRUE, TRUE)
            /\ run' = Advanced([run EXCEPT !.resets = run.resets + 1])
       ELSE /\ run' = Advanced(run)
            /\ UNCHANGED pairVars
    /\ UNCHANGED <<exch, autoPairUpdates>>

\* if !GetEnabledFeatures().AutoPairUpdates && !forceUpdate { return }
RunGate ==
    /\ Step = "gate"
    /\ run' = IF ~autoPairUpdates /\ ~run.forceUpdate
              THEN Returned(run) ELSE Advanced(run)
    /\ UNCHANGED <<pairVars, exch, autoPairUpdates>>

\* the pair lists a live fetch may return, in e's format
FetchCatalogue(e) ==
    <<Symbol(BTC, Delimiter(e), USD), Symbol(LTC, Delimiter(e), USD),
      Symbol(ETH, Delimiter(e), USD)>>
NumFetched == 2
FetchedLists(e) == {SubSeq(FetchCatalogue(e), 1, n) : n \in 0..NumFetched}

\* the live fetch of the tradable pairs fails: Run logs and returns; a
\* connector with UpdateTradablePairs returns from it first
RunFetchFails ==
    /\ Step = "fetch"
    /\ run' = Returned([run EXCEPT
                  !.fetch = "failed",
                  !.utp = IF exch \in HasUpdateTradablePairs
                          THEN ReturnedOnFetchError(exch) ELSE "none"])
    /\ UNCHANGED <<pairVars, exch, autoPairUpdates>>

\* the live fetch succeeds
RunFetch ==
    /\ Step = "fetch"
    /\ \E pairs \in FetchedLists(exch) :
          run' = Advanced([run EXCEPT !.fetch = "ok", !.pairs = pairs])
    /\ UNCHANGED <<pairVars, exch, autoPairUpdates>>

\* the refresh of the available pairs from the fetched list
RunUpdate ==
    /\ Step = "update"
    /\ IF exch \in HasUpdateTradablePairs
       THEN UpdatePairs(run.pairs, FALSE, run.forceUpdate)
       ELSE UpdateCurrencies(run.pairs, FALSE, run.forceUpdate)
    /\ run' = Advanced([run EXCEPT
                  !.updates = run.updates + 1,
                  !.utp = IF exch \in HasUpdateTradablePairs
                          THEN IF call'.err = "nil" THEN "nil" ELSE "error"
                          ELSE "none"])
    /\ UNCHANGED <<exch, autoPairUpdates>>

\* the pair lists a profile holds when Run is entered: in e's format, or in
\* the format without delimiter that a config upgrade leaves behind
StoredEnabledLists(e) ==
    {<<Symbol(BTC, Delimiter(e), USD)>>, <<Symbol(BTC, EmptyString, USD)>>}
StoredAvailableLists(e) ==
    {<<Symbol(BTC, Delimiter(e), USD), Symbol(BTC, Delimiter(e), USDT)>>,
     <<Symbol(BTC, EmptyString, USD), Symbol(BTC, EmptyString, USDT)>>}

InitRun ==
    /\ exch \in Connectors
    /\ autoPairUpdates \in BOOLEAN
    /\ run = [pc |-> 0]
    /\ InitProfile(StoredEnabledLists(exch), StoredAvailableLists(exch))
    /\ PermIdle /\ CacheIdle /\ BaseIdle /\ ReadIdle
    /\ LimitIdle
    /\ StartIdle
    /\ OrderIdle

NextRun ==
    \/ RunBegin      /\ UNCHANGED <<permVars, cacheVars, baseVars, readVars,
                                    limitVars, startVars, orderVars>>
    \/ RunDetect     /\ UNCHANGED <<permVars, cacheVars, baseVars, readVars,
                                    limitVars, startVars, orderVars>>
    \/ RunReset      /\ UNCHANGED <<permVars, cacheVars, baseVars, readVars,
                                    limitVars, startVars, orderVars>>
    \/ RunGate       /\ UNCHANGED <<permVars, cacheVars, baseVars, readVars,
                                    limitVars, startVars, orderVars>>
    \/ RunFetchFails /\ UNCHANGED <<permVars, cacheVars, baseVars, readVars,
                                    limitVars, startVars, orderVars>>
    \/ RunFetch      /\ UNCHANGED <<permVars, cacheVars, baseVars, readVars,
                                    limitVars, startVars, orderVars>>
    \/ RunUpdate     /\ UNCHANGED <<permVars, cacheVars, baseVars, readVars,
                                    limitVars, startVars, orderVars>>

SpecRun == InitRun /\ [][NextRun]_vars

----------------------------------------------------------------------------
(* Start: wg.Add(1); go func() { Run(); wg.Done() }()                      *)

\* a variant that launches the task before it counts it
StartStepsGoFirst == <<"go", "add">>
\* the two statements of Start, in program order
StartSteps == <<"add", "go">>

\* one statement of Start(e)
StartStatement(s, e) ==
    IF s = "add"
    THEN /\ wg' = wg + 1
         /\ UNCHANGED tasks
    ELSE /\ tasks' = [tasks EXCEPT ![e].state = "launched"]
         /\ UNCHANGED wg

\* the caller enters Start(e) and executes its first statement
StartFirst(e) ==
    /\ main.wait = "none"
    /\ main.cur = NoExchange
    /\ e \notin main.started
    /\ StartStatement(StartSteps[1], e)
    /\ main' = [main EXCEPT !.cur = e]

\* the caller executes the second statement of Start and Start returns
StartSecond ==
    /\ main.cur # NoExchange
    /\ StartStatement(StartSteps[2], main.cur)
    /\ main' = [main EXCEPT !.cur = NoExchange,
                            !.started = @ \cup {main.cur}]

\* the launched task enters e's Run
TaskEnter(e) ==
    /\ tasks[e].state = "launched"
    /\ tasks' = [tasks EXCEPT ![e].state = "running", ![e].pc = 1]
    /\ UNCHANGED <<wg, main>>

\* one step of e's Run; the gate may return, the last step returns
TaskStep(e) ==
    /\ tasks[e].state = "running"
    /\ \E leave \in {FALSE, Steps(e)[tasks[e].pc] = "gate"} :
          tasks' = IF leave \/ tasks[e].pc = Len(Steps(e))
                   THEN [tasks EXCEPT ![e].state = "returned"]
                   ELSE [tasks EXCEPT ![e].pc = @ + 1]
    /\ UNCHANGED <<wg, main>>

\* the live fetch or the write to the config store fails: Run logs the
\* error and returns
TaskFail(e) ==
    /\ tasks[e].state = "running"
    /\ Steps(e)[tasks[e].pc] \in {"fetch", "update"}
    /\ tasks' = [tasks EXCEPT ![e].state = "returned",
                              ![e].failed = Steps(e)[tasks[e].pc]]
    /\ UNCHANGED <<wg, main>>

\* wg.Done() after Run has returned; the task ends
TaskDone(e) ==
    /\ tasks[e].state = "returned"
    /\ wg' = wg - 1
    /\ tasks' = [tasks EXCEPT ![e].state = "done", ![e].dones = @ + 1]
    /\ UNCHANGED main

\* the caller calls wg.Wait() after some Starts
Wait ==
    /\ main.wait = "none"
    /\ main.cur = NoExchange
    /\ main.started # {}
    /\ main' = [main EXCEPT !.wait = "waiting"]
    /\ UNCHANGED <<wg, tasks>>

\* wg.Wait() returns when the counter is zero
WaitReturn ==
    /\ main.wait = "waiting"
    /\ wg = 0
    /\ main' = [main EXCEPT !.wait = "returned"]
    /\ UNCHANGED <<wg, tasks>>

----------------------------------------------------------------------------
(* The ticker and orderbook caches and the wrappers' fetch-or-update       *)

\* ticker.Spot, and a contract type of the futures wrappers
Spot == "SPOT"
ThisWeek == "this_week"
AssetTypes == {Spot, ThisWeek}

\* the connectors of SpecCache: ItBit, CoinbasePro, OKEX and OKCoin update
\* one pair per live call, Binance and Bittrex every enabled pair from one
\* live call.  "OKCoin" is the wrapper whose API URL is okcoinAPIURL,
\* "OKCoinChina" the same wrapper configured with another URL.
CacheConnectors ==
    {"ItBit", "Binance", "Bittrex", "CoinbasePro", "OKEX", "OKCoin",
     "OKCoinChina"}
BatchTicker == {"Binance", "Bittrex"}

\* the key of a cache entry of the connector under study
Key(p, assetType) == <<p, assetType>>

\* ticker.GetTicker / orderbook.GetOrderbook find an entry
Cached(cache, p, assetType) == Key(p, assetType) \in DOMAIN cache

\* ticker.ProcessTicker / orderbook.ProcessOrderbook: insert or replace
Process(cache, p, snapshot, assetType) ==
    [k \in DOMAIN cache \cup {Key(p, assetType)} |->
        IF k = Key(p, assetType) THEN snapshot ELSE cache[k]]

\* the snapshot built for pair p from the n-th live call
Snapshot(p, n) == [Pair |-> p, Last |-> n]

\* the asset type of the key that e's FetchTicker / GetTickerPrice looks up
TickerLookupAsset(e, assetType) == IF e = "Bittrex" THEN Spot ELSE assetType

\* the asset type of the key that e's UpdateTicker processes its snapshot
\* under: OKCoin takes the futures branch only on okcoinAPIURL, and its
\* other branch processes under the spot asset type
TickerProcessAsset(e, assetType) ==
    CASE e = "OKCoinChina" -> Spot
      [] e = "OKCoin"      -> IF assetType # Spot THEN assetType ELSE Spot
      [] e = "OKEX"        -> IF assetType # Spot THEN assetType ELSE Spot
      [] OTHER             -> assetType

RECURSIVE ProcessListed(_, _, _, _, _)
\* the loop of a batch UpdateTicker: every enabled pair found in the
\* response is processed
ProcessListed(cache, enabledPairs, listed, n, assetType) ==
    IF Len(enabledPairs) = 0 THEN cache
    ELSE ProcessListed(
             IF Head(enabledPairs) \in listed
             THEN Process(cache, Head(enabledPairs),
                          Snapshot(Head(enabledPairs), n), assetType)
             ELSE cache,
             Tail(enabledPairs), listed, n, assetType)

\* the return of ticker.GetTicker / orderbook.GetOrderbook at the end of an
\* update
Lookup(cache, p, assetType) ==
    IF Cached(cache, p, assetType)
    THEN [err |-> "nil", result |-> cache[Key(p, assetType)]]
    ELSE [err |-> "not found", result |-> "none"]

\* e's UpdateTicker(p, assetType) on the n-th live call, whose response is
\* live
UpdateTickerOutcome(e, cache, enabledPairs, p, assetType, live, n) ==
    IF ~live.ok
    THEN [cache |-> cache, err |-> "live call", result |-> "none"]
    ELSE LET after == IF e \in BatchTicker
                      THEN ProcessListed(cache, enabledPairs, live.listed,
                                         n, assetType)
                      ELSE Process(cache, p, Snapshot(p, n),
                                   TickerProcessAsset(e, assetType))
         IN  [cache  |-> after,
              err    |-> Lookup(after, p, assetType).err,
              result |-> Lookup(after, p, assetType).result]

\* e's UpdateOrderbook(p, assetType): one live call for the pair
UpdateOrderbookOutcome(e, cache, p, assetType, live, n) ==
    IF ~live.ok
    THEN [cache |-> cache, err |-> "live call", result |-> "none"]
    ELSE LET after == Process(cache, p, Snapshot(p, n), assetType)
         IN  [cache  |-> after,
              err    |-> Lookup(after, p, assetType).err,
              result |-> Lookup(after, p, assetType).result]

\* the pairs callers ask for, and what a live call may answer
RequestPairs == {Symbol(BTC, Dash, USD), Symbol(LTC, Dash, USD)}
LiveFailure == [ok |-> FALSE, listed |-> {}]
LiveTickers(e, p) ==
    {LiveFailure}
        \cup {[ok |-> TRUE, listed |-> L] :
                 L \in IF e \in BatchTicker THEN SUBSET RequestPairs ELSE {{p}}}
LiveOrderbooks(p) == {LiveFailure, [ok |-> TRUE, listed |-> {p}]}

\* at most MaxLive live calls are made in a behaviour
MaxLive == 2

\* the record of a call on a cache
CacheCall(op, cache, p, assetType, updateCalls, liveMade, out) ==
    [op          |-> op,
     p           |-> p,
     assetType   |-> assetType,
     lookupAsset |-> IF op = "FetchTicker"
                     THEN TickerLookupAsset(exch, assetType) ELSE assetType,
     processAsset |-> IF op \in {"FetchTicker", "UpdateTicker"}
                      THEN TickerProcessAsset(exch, assetType) ELSE assetType,
     cached      |-> Cached(cache, p, assetType),
     cachedValue |-> Lookup(cache, p, assetType).result,
     updateCalls |-> updateCalls,
     liveCalls   |-> liveMade,
     err         |-> out.err,
     result      |-> out.result]

\* FetchTicker / GetTickerPrice
FetchTicker(p, assetType) ==
    IF Cached(tickers, p, TickerLookupAsset(exch, assetType))
    THEN /\ fetchCall' = CacheCall("FetchTicker", tickers, p, assetType, 0, 0,
                Lookup(tickers, p, TickerLookupAsset(exch, assetType)))
         /\ UNCHANGED <<tickers, orderbooks, liveCount>>
    ELSE /\ liveCount < MaxLive
         /\ \E live \in LiveTickers(exch, p) :
            \E out \in {UpdateTickerOutcome(exch, tickers, EnabledPairs, p,
                                            assetType, live, liveCount + 1)} :
               /\ tickers' = out.cache
               /\ fetchCall' = CacheCall("FetchTicker", tickers, p, assetType,
                                         1, 1, out)
         /\ liveCount' = liveCount + 1
         /\ UNCHANGED orderbooks

\* UpdateTicker
UpdateTicker(p, assetType) ==
    /\ liveCount < MaxLive
    /\ \E live \in LiveTickers(exch, p) :
       \E out \in {UpdateTickerOutcome(exch, tickers, EnabledPairs, p,
                                       assetType, live, liveCount + 1)} :
          /\ tickers' = out.cache
          /\ fetchCall' = CacheCall("UpdateTicker", tickers, p, assetType,
                                    1, 1, out)
    /\ liveCount' = liveCount + 1
    /\ UNCHANGED orderbooks

\* FetchOrderbook / GetOrderbookEx
FetchOrderbook(p, assetType) ==
    IF Cached(orderbooks, p, assetType)
    THEN /\ fetchCall' = CacheCall("FetchOrderbook", orderbooks, p, assetType,
                                   0, 0, Lookup(orderbooks, p, assetType))
         /\ UNCHANGED <<tickers, orderbooks, liveCount>>
    ELSE /\ liveCount < MaxLive
         /\ \E live \in LiveOrderbooks(p) :
            \E out \in {UpdateOrderbookOutcome(exch, orderbooks, p, assetType,
                                               live, liveCount + 1)} :
               /\ orderbooks' = out.cache
               /\ fetchCall' = CacheCall("FetchOrderbook", orderbooks, p,
                                         assetType, 1, 1, out)
         /\ liveCount' = liveCount + 1
         /\ UNCHANGED tickers

\* UpdateOrderbook
UpdateOrderbook(p, assetType) ==
    /\ liveCount < MaxLive
    /\ \E live \in LiveOrderbooks(p) :
       \E out \in {UpdateOrderbookOutcome(exch, orderbooks, p, assetType,
                                          live, liveCount + 1)} :
          /\ orderbooks' = out.cache
          /\ fetchCall' = CacheCall("UpdateOrderbook", orderbooks, p,
                                    assetType, 1, 1, out)
    /\ liveCount' = liveCount + 1
    /\ UNCHANGED tickers

CallFetchTicker ==
    \E p \in RequestPairs, assetType \in AssetTypes : FetchTicker(p, assetType)
CallUpdateTicker ==
    \E p \in RequestPairs, assetType \in AssetTypes : UpdateTicker(p, assetType)
CallFetchOrderbook ==
    \E p \in RequestPairs, assetType \in AssetTypes :
        FetchOrderbook(p, assetType)
CallUpdateOrderbook ==
    \E p \in RequestPairs, assetType \in AssetTypes :
        UpdateOrderbook(p, assetType)

\* the caches are empty when the connector starts; its enabled pairs are
\* some of the pairs callers ask for
InitCache ==
    /\ exch \in CacheConnectors
    /\ EnabledPairs \in {<<Symbol(BTC, Dash, USD)>>,
                         <<Symbol(BTC, Dash, USD), Symbol(LTC, Dash, USD)>>}
    /\ AvailablePairs = EnabledPairs
    /\ cfg = ConfigEntry(TRUE, TRUE, EnabledPairs, AvailablePairs)
    /\ call = NoCall
    /\ autoPairUpdates = FALSE
    /\ run = [pc |-> 0]
    /\ CacheIdle
    /\ PermIdle
    /\ BaseIdle /\ ReadIdle
    /\ LimitIdle
    /\ StartIdle
    /\ OrderIdle

NextCache ==
    \/ CallFetchTicker     /\ UNCHANGED <<permVars, pairVars, runVars,
                                          baseVars, readVars, limitVars,
                                          startVars, orderVars>>
    \/ CallUpdateTicker    /\ UNCHANGED <<permVars, pairVars, runVars,
                                          baseVars, readVars, limitVars,
                                          startVars, orderVars>>
    \/ CallFetchOrderbook  /\ UNCHANGED <<permVars, pairVars, runVars,
                                          baseVars, readVars, limitVars,
                                          startVars, orderVars>>
    \/ CallUpdateOrderbook /\ UNCHANGED <<permVars, pairVars, runVars,
                                          baseVars, readVars, limitVars,
                                          startVars, orderVars>>

SpecCache == InitCache /\ [][NextCache]_vars

----------------------------------------------------------------------------
(* SpecBatch: the UpdateTicker of the connectors that serve every enabled  *)
(* pair from one live call                                                 *)

BatchConnectors == {"Binance", "ZB", "HitBTC", "Poloniex"}

\* the connectors whose loop indexes the response map by the pair's symbol;
\* Binance scans the response list for the symbol
IndexesResponse == {"ZB", "HitBTC", "Poloniex"}

\* the zero value a Go map returns for a key it does not hold
ZeroSnapshot(p) == [Pair |-> p, Last |-> 0]

RECURSIVE ProcessEnabled(_, _, _, _, _)
\* the loop of ZB, HitBTC and Poloniex: every enabled pair is processed,
\* with the response's entry or the map's zero value
ProcessEnabled(cache, enabledPairs, listed, n, assetType) ==
    IF Len(enabledPairs) = 0 THEN cache
    ELSE ProcessEnabled(
             Process(cache, Head(enabledPairs),
                     IF Head(enabledPairs) \in listed
                     THEN Snapshot(Head(enabledPairs), n)
                     ELSE ZeroSnapshot(Head(enabledPairs)),
                     assetType),
             Tail(enabledPairs), listed, n, assetType)

\* e's batch UpdateTicker(p, assetType) on the n-th live call
BatchUpdateTickerOutcome(e, cache, enabledPairs, p, assetType, live, n) ==
    IF ~live.ok
    THEN [cache |-> cache, err |-> "live call", result |-> "none"]
    ELSE LET after == IF e \in IndexesResponse
                      THEN ProcessEnabled(cache, enabledPairs, live.listed,
                                          n, assetType)
                      ELSE ProcessListed(cache, enabledPairs, live.listed,
                                         n, assetType)
         IN  [cache  |-> after,
              err    |-> Lookup(after, p, assetType).err,
              result |-> Lookup(after, p, assetType).result]

BatchUpdateTicker(p, assetType) ==
    /\ liveCount < MaxLive
    /\ \E live \in {LiveFailure}
                     \cup {[ok |-> TRUE, listed |-> L] : L \in SUBSET RequestPairs} :
       \E out \in {BatchUpdateTickerOutcome(exch, tickers, EnabledPairs, p,
                                            assetType, live, liveCount + 1)} :
          /\ tickers' = out.cache
          /\ fetchCall' = [op        |-> "BatchUpdateTicker",
                           p         |-> p,
                           assetType |-> assetType,
                           live      |-> live,
                           pre       |-> tickers,
                           err       |-> out.err]
    /\ liveCount' = liveCount + 1
    /\ UNCHANGED orderbooks

CallBatchUpdateTicker ==
    \E p \in RequestPairs, assetType \in AssetTypes :
        BatchUpdateTicker(p, assetType)

InitBatch ==
    /\ exch \in BatchConnectors
    /\ EnabledPairs \in {<<Symbol(BTC, Dash, USD)>>,
                         <<Symbol(BTC, Dash, USD), Symbol(LTC, Dash, USD)>>}
    /\ AvailablePairs = EnabledPairs
    /\ cfg = ConfigEntry(TRUE, TRUE, EnabledPairs, AvailablePairs)
    /\ call = NoCall
    /\ autoPairUpdates = FALSE
    /\ run = [pc |-> 0]
    /\ CacheIdle
    /\ PermIdle /\ BaseIdle /\ ReadIdle /\ LimitIdle /\ StartIdle
    /\ OrderIdle

NextBatch ==
    CallBatchUpdateTicker
          /\ UNCHANGED <<permVars, pairVars, runVars, baseVars, readVars,
                         limitVars, startVars, orderVars>>

SpecBatch == InitBatch /\ [][NextBatch]_vars

----------------------------------------------------------------------------
(* SpecBook: ZB's GetOrderbook and the UpdateOrderbook that stores it      *)

\* price levels [price, amount] of a depth response
BookLevels == {<<1, 5>>, <<2, 7>>}
MaxDepth == 3
RECURSIVE LevelLists(_)
LevelLists(n) ==
    IF n = 0 THEN {<<>>}
    ELSE LevelLists(n - 1)
            \cup {Append(l, x) : l \in {m \in LevelLists(n - 1) : Len(m) = n - 1},
                                 x \in BookLevels}

RECURSIVE ReverseToFirst(_, _)
\* a variant of the loop that runs down to and including index 0
ReverseToFirst(asks, x) ==
    IF x < 0 THEN <<>>
    ELSE <<asks[x + 1]>> \o ReverseToFirst(asks, x - 1)

RECURSIVE ReverseAsks(_, _)
\* for x := len(res.Asks) - 1; x != 0; x-- { data = append(data, res.Asks[x]) }
\* (x is the Go index; the sequence's element x + 1)
ReverseAsks(asks, x) ==
    IF x = 0 THEN <<>>
    ELSE <<asks[x + 1]>> \o ReverseAsks(asks, x - 1)

\* ZB.GetOrderbook on a response res = [ok, Asks, Bids]
ZBGetOrderbook(res) ==
    IF ~res.ok THEN [err |-> "live call", Asks |-> <<>>, Bids |-> <<>>]
    ELSE IF Len(res.Asks) = 0
    THEN [err |-> "asks is empty", Asks |-> res.Asks, Bids |-> res.Bids]
    ELSE IF Len(res.Bids) = 0
    THEN [err |-> "bids is empty", Asks |-> res.Asks, Bids |-> res.Bids]
    ELSE [err  |-> "nil",
          Asks |-> ReverseAsks(res.Asks, Len(res.Asks) - 1),
          Bids |-> res.Bids]

\* orderbook.Item{Amount: data[1], Price: data[0]} for every level
BookItems(levels) ==
    [i \in 1..Len(levels) |-> [Price |-> levels[i][1], Amount |-> levels[i][2]]]

\* ZB.UpdateOrderbook(p, assetType)
ZBUpdateOrderbook(p, assetType, res) ==
    \E got \in {ZBGetOrderbook(res)} :
        /\ orderbooks' =
              IF got.err # "nil" THEN orderbooks
              ELSE Process(orderbooks, p,
                           [Bids |-> BookItems(got.Bids),
                            Asks |-> BookItems(got.Asks)], assetType)
        /\ fetchCall' = [op        |-> "ZBUpdateOrderbook",
                         p         |-> p,
                         assetType |-> assetType,
                         res       |-> res,
                         got       |-> got]
        /\ UNCHANGED <<tickers, liveCount>>

DepthResponses ==
    {[ok |-> ok, Asks |-> a, Bids |-> b] :
        ok \in BOOLEAN, a \in LevelLists(MaxDepth), b \in {<<>>, <<<<1, 5>>>>}}

InitBook ==
    /\ exch = "ZB"
    /\ EnabledPairs = <<Symbol(BTC, Underscore, USD)>>
    /\ AvailablePairs = EnabledPairs
    /\ cfg = ConfigEntry(TRUE, TRUE, EnabledPairs, AvailablePairs)
    /\ call = NoCall
    /\ autoPairUpdates = FALSE
    /\ run = [pc |-> 0]
    /\ CacheIdle
    /\ PermIdle /\ BaseIdle /\ ReadIdle /\ LimitIdle /\ StartIdle
    /\ OrderIdle

CallZBUpdateOrderbook ==
    \E res \in DepthResponses :
        ZBUpdateOrderbook(Symbol(BTC, Underscore, USD), Spot, res)

NextBook ==
    CallZBUpdateOrderbook
          /\ UNCHANGED <<permVars, pairVars, runVars, baseVars, readVars,
                         limitVars, startVars, orderVars>>

SpecBook == InitBook /\ [][NextBook]_vars

----------------------------------------------------------------------------
(* SpecCancel: Gateio's CancelAllOrders                                    *)

\* var uniqueSymbols map[string]string: declared, never made
NilMap == [nil |-> TRUE, panicked |-> FALSE, keys |-> {}]

\* m[k] = k; an assignment to an entry of a nil map panics
MapAssign(m, k) ==
    IF m.panicked THEN m
    ELSE IF m.nil THEN [m EXCEPT !.panicked = TRUE]
    ELSE [m EXCEPT !.keys = @ \cup {k}]

RECURSIVE CollectSymbols(_, _)
\* for _, openOrder := range openOrders.Orders { uniqueSymbols[...] = ... }
CollectSymbols(m, orders) ==
    IF Len(orders) = 0 THEN m
    ELSE CollectSymbols(MapAssign(m, Head(orders)), Tail(orders))

RECURSIVE CancelEach(_, _, _)
\* for _, uniqueSymbol := range uniqueSymbols: one CancelAllExistingOrders
\* per key, in the order the map yields them, until a call fails
CancelEach(symbols, failing, calls) ==
    IF Len(symbols) = 0 THEN [err |-> "nil", calls |-> calls]
    ELSE IF Head(symbols) \in failing
    THEN [err |-> "cancel", calls |-> Append(calls, Head(symbols))]
    ELSE CancelEach(Tail(symbols), failing, Append(calls, Head(symbols)))

\* the orders in which a range over a map with these keys may yield them
Orderings(S) ==
    {o \in [1..Cardinality(S) -> S] :
        \A i, j \in 1..Cardinality(S) : o[i] = o[j] => i = j}

\* Gateio.CancelAllOrders: open is the answer of GetOpenOrders(""), failing
\* the pairs whose CancelAllExistingOrders fails
GateioCancelAllOrders(open, failing) ==
    IF ~open.ok
    THEN {[outcome |-> "returned", err |-> "open orders", calls |-> <<>>]}
    ELSE LET uniqueSymbols == CollectSymbols(NilMap, open.orders)
         IN  IF uniqueSymbols.panicked
             THEN {[outcome |-> "panic", err |-> "none", calls |-> <<>>]}
             ELSE {[outcome |-> "returned",
                    err     |-> CancelEach(o, failing, <<>>).err,
                    calls   |-> CancelEach(o, failing, <<>>).calls] :
                       o \in Orderings(uniqueSymbols.keys)}

OrderPairs == {Symbol(btc, Underscore, usd), Symbol(ltc, Underscore, usd)}
MaxOpenOrders == 3
RECURSIVE OpenOrderLists(_)
OpenOrderLists(n) ==
    IF n = 0 THEN {<<>>}
    ELSE OpenOrderLists(n - 1)
            \cup {Append(l, x) :
                     l \in {m \in OpenOrderLists(n - 1) : Len(m) = n - 1},
                     x \in OrderPairs}

CancelAllOrders(open, failing) ==
    \E out \in GateioCancelAllOrders(open, failing) :
        orderCall' = [op      |-> "CancelAllOrders",
                      open    |-> open,
                      failing |-> failing,
                      outcome |-> out.outcome,
                      err     |-> out.err,
                      calls   |-> out.calls]

InitCancel ==
    /\ orderCall = NoCall
    /\ PermIdle /\ PairsIdle /\ RunIdle /\ CacheIdle /\ BaseIdle /\ ReadIdle
    /\ LimitIdle /\ StartIdle

CallCancelAllOrders ==
    \E ok \in BOOLEAN, orders \in OpenOrderLists(MaxOpenOrders),
       failing \in SUBSET OrderPairs :
        CancelAllOrders([ok |-> ok, orders |-> orders], failing)

NextCancel ==
    CallCancelAllOrders
          /\ UNCHANGED <<permVars, pairVars, runVars, cacheVars, baseVars,
                         readVars, limitVars, startVars>>

SpecCancel == InitCancel /\ [][NextCancel]_vars

----------------------------------------------------------------------------
(* SpecFetch: FetchTicker / GetTickerPrice called again and again on       *)
(* Bitflyer, Bittrex and HitBTC                                            *)

FetchConnectors == {"Bitflyer", "Bittrex", "HitBTC"}

\* pairs as pair.CurrencyPair values
FX == <<"F","X">>
FXBTC == <<"F","X","_","B","T","C">>
Pair(first, second) == [FirstCurrency |-> first, SecondCurrency |-> second]
FetchPairs == {Pair(BTC, JPY), Pair(FX, JPY), Pair(FXBTC, JPY)}

\* the enabled pairs of the connector, for the batch updates
FetchEnabled == <<Pair(BTC, JPY), Pair(FX, JPY)>>

\* Bitflyer.CheckFXString
CheckFXString(p) ==
    IF StringContains(p.FirstCurrency, FX)
    THEN [p EXCEPT !.FirstCurrency = FXBTC]
    ELSE p

\* e's UpdateTicker(p, assetType) as FetchTicker calls it on a miss
FetchUpdateOutcome(e, cache, p, assetType, live, n) ==
    IF ~live.ok
    THEN [cache |-> cache, err |-> "live call", result |-> "none"]
    ELSE LET q == IF e = "Bitflyer" THEN CheckFXString(p) ELSE p
             after ==
                 CASE e = "Bitflyer" ->
                        Process(cache, q, Snapshot(q, n), assetType)
                   [] e = "Bittrex" ->
                        ProcessListed(cache, FetchEnabled, live.listed, n,
                                      assetType)
                   [] e = "HitBTC" ->
                        ProcessEnabled(cache, FetchEnabled, live.listed, n,
                                       assetType)
         IN  [cache  |-> after,
              err    |-> Lookup(after, q, assetType).err,
              result |-> Lookup(after, q, assetType).result]

\* what is kept of the call before this one
Previous(c) ==
    IF c.op = "none" THEN c
    ELSE [op |-> c.op, p |-> c.p, assetType |-> c.assetType, hit |-> c.hit,
          err |-> c.err, result |-> c.result]

\* FetchTicker / GetTickerPrice of e = exch
FetchTickerAgain(p, assetType) ==
    IF Cached(tickers, p, TickerLookupAsset(exch, assetType))
    THEN /\ fetchCall' =
               [op |-> "FetchTicker", p |-> p, assetType |-> assetType,
                hit |-> TRUE, live |-> 0, err |-> "nil",
                result |-> Lookup(tickers, p,
                                  TickerLookupAsset(exch, assetType)).result,
                prev |-> Previous(fetchCall)]
         /\ UNCHANGED <<tickers, orderbooks, liveCount>>
    ELSE /\ liveCount < MaxLive
         /\ \E live \in {LiveFailure}
                          \cup {[ok |-> TRUE, listed |-> L] :
                                   L \in IF exch = "Bitflyer" THEN {{p}}
                                         ELSE SUBSET FetchPairs} :
            \E out \in {FetchUpdateOutcome(exch, tickers, p, assetType, live,
                                           liveCount + 1)} :
               /\ tickers' = out.cache
               /\ fetchCall' =
                     [op |-> "FetchTicker", p |-> p, assetType |-> assetType,
                      hit |-> FALSE, live |-> 1, err |-> out.err,
                      result |-> out.result, prev |-> Previous(fetchCall)]
         /\ liveCount' = liveCount + 1
         /\ UNCHANGED orderbooks

InitFetch ==
    /\ exch \in FetchConnectors
    /\ autoPairUpdates = FALSE
    /\ run = [pc |-> 0]
    /\ CacheIdle
    /\ PermIdle /\ PairsIdle /\ BaseIdle /\ ReadIdle /\ LimitIdle
    /\ StartIdle /\ OrderIdle

CallFetchTickerAgain ==
    \E p \in FetchPairs, assetType \in AssetTypes :
        FetchTickerAgain(p, assetType)

NextFetch ==
    CallFetchTickerAgain
          /\ UNCHANGED <<permVars, pairVars, runVars, baseVars, readVars,
                         limitVars, startVars, orderVars>>

SpecFetch == InitFetch /\ [][NextFetch]_vars

----------------------------------------------------------------------------
(* SpecSubmit: the connectors' SubmitOrder                                 *)

SubmitConnectors ==
    {"Binance", "CoinbasePro", "Bitstamp", "Bittrex", "ItBit", "HitBTC",
     "ANX", "Poloniex", "WEX", "ZB", "Kraken", "Bitflyer", "Gateio",
     "GateioOld", "OKCoin", "OKEX", "Alphapoint"}

\* exchange.OrderType values: the two the wrappers test for, and another
OrderTypes == {"Limit", "Market", "Stop"}
OrderSides == {"Buy", "Sell"}

\* the order types e's SubmitOrder accepts before it calls the exchange
AcceptedTypes(e) ==
    CASE e \in {"Binance", "OKCoin", "OKEX", "CoinbasePro"} -> {"Limit", "Market"}
      [] e = "Bittrex" -> {"Limit"}
      [] OTHER -> OrderTypes

\* var submitOrderResponse exchange.SubmitOrderResponse
ZeroResponse == [IsOrderPlaced |-> FALSE, OrderID |-> ""]

\* a variant of the tail that marks the order placed whatever the error
PlacedAlways(response, err) ==
    [resp |-> [IsOrderPlaced |-> TRUE, OrderID |-> response], err |-> err]

\* the tail shared by the wrappers:
\*   if response != "" { submitOrderResponse.OrderID = response }
\*   if err == nil { submitOrderResponse.IsOrderPlaced = true }
\*   return submitOrderResponse, err
Placed(response, err) ==
    [resp |-> [IsOrderPlaced |-> (err = "nil"), OrderID |-> response],
     err  |-> err]

\* e's SubmitOrder for an order of this type; env holds what the exchange
\* answers: walletsErr and wallet (ItBit's GetWallets and the wallet found),
\* err and id (the answer of the call that places the order)
SubmitOrderOutcome(e, orderType, env) ==
    CASE e = "Bitflyer" ->
            [resp |-> ZeroResponse, err |-> "not yet implemented"]
      [] e = "ItBit" ->
            IF env.walletsErr # "nil"
            THEN [resp |-> ZeroResponse, err |-> env.walletsErr]
            ELSE IF env.wallet = ""
            THEN [resp |-> ZeroResponse, err |-> "no wallet found"]
            ELSE Placed(env.id, env.err)
      [] e = "CoinbasePro" ->
            IF orderType \in AcceptedTypes(e)
            THEN Placed(env.id, env.err)
            ELSE Placed("", "not supported")
      [] OTHER ->
            IF orderType \in AcceptedTypes(e)
            THEN Placed(env.id, env.err)
            ELSE [resp |-> ZeroResponse, err |-> "unsupported order type"]

\* what the exchange may answer
SubmitAnswers(e) ==
    {[walletsErr |-> w, wallet |-> v, err |-> x, id |-> i] :
        w \in IF e = "ItBit" THEN {"nil", "wallets"} ELSE {"nil"},
        v \in IF e = "ItBit" THEN {"", "wallet-1"} ELSE {""},
        x \in {"nil", "rejected"},
        i \in {"", "42"}}

SubmitOrder(e, side, orderType, env) ==
    \E out \in {SubmitOrderOutcome(e, orderType, env)} :
        orderCall' = [op        |-> "SubmitOrder",
                      e         |-> e,
                      side      |-> side,
                      orderType |-> orderType,
                      env       |-> env,
                      resp      |-> out.resp,
                      err       |-> out.err]

InitSubmit ==
    /\ orderCall = NoCall
    /\ PermIdle /\ PairsIdle /\ RunIdle /\ CacheIdle /\ BaseIdle /\ ReadIdle
    /\ LimitIdle /\ StartIdle

CallSubmitOrder ==
    \E e \in SubmitConnectors, side \in OrderSides, orderType \in OrderTypes :
        \E env \in SubmitAnswers(e) : SubmitOrder(e, side, orderType, env)

NextSubmit ==
    CallSubmitOrder
          /\ UNCHANGED <<permVars, pairVars, runVars, cacheVars, baseVars,
                         readVars, limitVars, startVars>>

SpecSubmit == InitSubmit /\ [][NextSubmit]_vars

----------------------------------------------------------------------------
(* SpecBase: Setup, SetEnabled, IsEnabled, SetAPIURL and                   *)
(* SetClientProxyAddress on one profile, with or without a Websocket       *)

InitBase ==
    /\ profile \in {[DefaultBase EXCEPT !.HasWebsocket = w] : w \in BOOLEAN}
    /\ baseCall = NoCall
    /\ lastEnabled = TRUE
    /\ PermIdle /\ PairsIdle /\ RunIdle /\ CacheIdle /\ ReadIdle
    /\ LimitIdle
    /\ StartIdle
    /\ OrderIdle

CallSetClientProxyAddress ==
    \E addr \in ProxyAddresses, requesterOK \in BOOLEAN, websocketOK \in BOOLEAN :
        SetClientProxyAddress(addr, requesterOK, websocketOK)

CallSetAPIURL ==
    \E ec \in ExchangeConfigs : SetAPIURL(ec)

CallSetup ==
    \E ec \in ExchangeConfigs, requesterOK \in BOOLEAN, websocketOK \in BOOLEAN :
        Setup(ec, requesterOK, websocketOK)

CallSetEnabled ==
    \E enabled \in BOOLEAN : SetEnabled(enabled)

NextBase ==
    \/ CallSetClientProxyAddress /\ UNCHANGED <<permVars, pairVars, runVars,
                                                cacheVars, readVars,
                                                limitVars, startVars,
                                                orderVars>>
    \/ CallSetAPIURL             /\ UNCHANGED <<permVars, pairVars, runVars,
                                                cacheVars, readVars,
                                                limitVars, startVars,
                                                orderVars>>
    \/ CallSetup                 /\ UNCHANGED <<permVars, pairVars, runVars,
                                                cacheVars, readVars,
                                                limitVars, startVars,
                                                orderVars>>
    \/ CallSetEnabled            /\ UNCHANGED <<permVars, pairVars, runVars,
                                                cacheVars, readVars,
                                                limitVars, startVars,
                                                orderVars>>
    \/ IsEnabled                 /\ UNCHANGED <<permVars, pairVars, runVars,
                                                cacheVars, readVars,
                                                limitVars, startVars,
                                                orderVars>>

SpecBase == InitBase /\ [][NextBase]_vars

----------------------------------------------------------------------------
(* SpecKeys: SetAPIKeys called again and again on one profile              *)

\* the secrets given to SetAPIKeys and what common.Base64Decode makes of
\* them: the decoded text, or an error for a text that is not base64
SecretTexts == {"c2VjcmV0", "cGFzcw==", "not base64!"}
Base64Decode(s) ==
    CASE s = "c2VjcmV0" -> [result |-> "secret", err |-> "nil"]
      [] s = "cGFzcw==" -> [result |-> "pass", err |-> "nil"]
      [] OTHER          -> [result |-> "", err |-> "illegal base64 data"]

APIKeyTexts == {"key-1", "key-2"}
ClientIDTexts == {"client-1", "client-2"}

\* a variant without the test of AuthenticatedAPISupport
SetAPIKeysUnguarded(b, APIKey, APISecret, ClientID, b64Decode) ==
    [b EXCEPT !.APIKey = APIKey, !.ClientID = ClientID,
              !.APISecret = IF b64Decode THEN Base64Decode(APISecret).result
                            ELSE APISecret]

\* Base.SetAPIKeys on the credentials b
SetAPIKeysOutcome(b, APIKey, APISecret, ClientID, b64Decode) ==
    IF ~b.AuthenticatedAPISupport THEN b
    ELSE IF b64Decode
    THEN [b EXCEPT !.APIKey = APIKey,
                   !.ClientID = ClientID,
                   !.AuthenticatedAPISupport =
                       (Base64Decode(APISecret).err = "nil"),
                   !.APISecret = Base64Decode(APISecret).result]
    ELSE [b EXCEPT !.APIKey = APIKey,
                   !.ClientID = ClientID,
                   !.APISecret = APISecret]

SetAPIKeys(APIKey, APISecret, ClientID, b64Decode) ==
    /\ profile' = SetAPIKeysOutcome(profile, APIKey, APISecret, ClientID,
                                    b64Decode)
    /\ baseCall' = [op        |-> "SetAPIKeys",
                    APIKey    |-> APIKey,
                    APISecret |-> APISecret,
                    ClientID  |-> ClientID,
                    b64Decode |-> b64Decode,
                    pre       |-> profile]
    /\ UNCHANGED lastEnabled

InitKeys ==
    /\ profile \in {[AuthenticatedAPISupport |-> a, APIKey |-> "",
                     APISecret |-> "", ClientID |-> ""] : a \in BOOLEAN}
    /\ baseCall = NoCall
    /\ lastEnabled = TRUE
    /\ PermIdle /\ PairsIdle /\ RunIdle /\ CacheIdle /\ ReadIdle
    /\ LimitIdle /\ StartIdle /\ OrderIdle

CallSetAPIKeys ==
    \E APIKey \in APIKeyTexts, APISecret \in SecretTexts,
       ClientID \in ClientIDTexts, b64Decode \in BOOLEAN :
        SetAPIKeys(APIKey, APISecret, ClientID, b64Decode)

NextKeys ==
    CallSetAPIKeys
          /\ UNCHANGED <<permVars, pairVars, runVars, cacheVars, readVars,
                         limitVars, startVars, orderVars>>

SpecKeys == InitKeys /\ [][NextKeys]_vars

----------------------------------------------------------------------------
(* SpecRead: one connector's Run, and a reader that calls                  *)
(* GetEnabledCurrencies and GetAvailableCurrencies while Run is under way  *)

InitRead ==
    /\ exch \in Connectors
    /\ autoPairUpdates \in BOOLEAN
    /\ run = [pc |-> 0]
    /\ InitProfile(StoredEnabledLists(exch), StoredAvailableLists(exch))
    /\ reader = NoReads
    /\ PermIdle /\ CacheIdle /\ BaseIdle
    /\ LimitIdle
    /\ StartIdle
    /\ OrderIdle

UnderWay == Step \notin {"start", "returned"}

ReadEnabled ==
    /\ UnderWay
    /\ GetEnabledCurrencies
    /\ UNCHANGED <<pairVars, runVars>>

ReadAvailable ==
    /\ UnderWay
    /\ GetAvailableCurrencies
    /\ UNCHANGED <<pairVars, runVars>>

ReadEnabledDuringReset == GetEnabledCurrenciesDuring(RunReset)

ReadAvailableDuringUpdate == GetAvailableCurrenciesDuring(RunUpdate)

NextRead ==
    \/ RunBegin      /\ UNCHANGED <<permVars, cacheVars, baseVars, readVars,
                                    limitVars, startVars, orderVars>>
    \/ RunDetect     /\ UNCHANGED <<permVars, cacheVars, baseVars, readVars,
                                    limitVars, startVars, orderVars>>
    \/ RunReset      /\ UNCHANGED <<permVars, cacheVars, baseVars, readVars,
                                    limitVars, startVars, orderVars>>
    \/ RunGate       /\ UNCHANGED <<permVars, cacheVars, baseVars, readVars,
                                    limitVars, startVars, orderVars>>
    \/ RunFetchFails /\ UNCHANGED <<permVars, cacheVars, baseVars, readVars,
                                    limitVars, startVars, orderVars>>
    \/ RunFetch      /\ UNCHANGED <<permVars, cacheVars, baseVars, readVars,
                                    limitVars, startVars, orderVars>>
    \/ RunUpdate     /\ UNCHANGED <<permVars, cacheVars, baseVars, readVars,
                                    limitVars, startVars, orderVars>>
    \/ ReadEnabled   /\ UNCHANGED <<permVars, cacheVars, baseVars, limitVars,
                                    startVars, orderVars>>
    \/ ReadAvailable /\ UNCHANGED <<permVars, cacheVars, baseVars, limitVars,
                                    startVars, orderVars>>
    \/ ReadEnabledDuringReset    /\ UNCHANGED <<permVars, cacheVars, baseVars,
                                                limitVars, startVars,
                                                orderVars>>
    \/ ReadAvailableDuringUpdate /\ UNCHANGED <<permVars, cacheVars, baseVars,
                                                limitVars, startVars,
                                                orderVars>>

SpecRead == InitRead /\ [][NextRead]_vars

----------------------------------------------------------------------------
(* SpecSet: SetCurrencies and UpdateCurrencies called with short lists,    *)
(* the empty list among them                                               *)

PairCatalogue ==
    <<CurrencyPair(BTC, USD), CurrencyPair(ltc, usd), CurrencyPair(ETH, USD)>>

PairLists == Slices(PairCatalogue)

ShortProductLists ==
    {<<>>, <<Symbol(BTC, Underscore, USD)>>,
     <<Symbol(btc, Underscore, usd), Symbol(ltc, Underscore, usd)>>}

InitSet ==
    /\ InitProfile(InitKnownLists, InitKnownLists)
    /\ PermIdle /\ RunIdle /\ CacheIdle /\ BaseIdle /\ ReadIdle
    /\ LimitIdle
    /\ StartIdle
    /\ OrderIdle

CallSetCurrencies ==
    \E pairs \in PairLists, enabledPairs \in BOOLEAN, format \in ConfigFormats :
        SetCurrencies(pairs, enabledPairs, format)

CallUpdateCurrenciesShort ==
    \E exchangeProducts \in ShortProductLists, enabled \in BOOLEAN,
       force \in BOOLEAN :
        UpdateCurrencies(exchangeProducts, enabled, force)

NextSet ==
    \/ CallSetCurrencies
          /\ UNCHANGED <<permVars, runVars, cacheVars, baseVars, readVars,
                         limitVars, startVars, orderVars>>
    \/ CallUpdateCurrenciesShort
          /\ UNCHANGED <<permVars, runVars, cacheVars, baseVars, readVars,
                         limitVars, startVars, orderVars>>

SpecSet == InitSet /\ [][NextSet]_vars

----------------------------------------------------------------------------
(* SpecParse: the updates that parse the numbers of the live response from *)
(* text: ANX.UpdateTicker and ItBit.UpdateOrderbook                        *)

ParseConnectors == {"ANX", "ItBit"}

\* the texts a numeric field of a response may hold: empty, a number, not a
\* number, a number too large for a float64
FieldTexts == {"", "1.5", "abc", "1e999"}

\* strconv.ParseFloat(s, 64): the value and the error; a syntax error gives
\* 0, a range error gives the infinity
ParseFloat(s) ==
    CASE s = "1.5"   -> [f |-> "1.5",  err |-> "nil"]
      [] s = "1e999" -> [f |-> "+Inf", err |-> "ErrRange"]
      [] OTHER       -> [f |-> "0",    err |-> "ErrSyntax"]

ParseFails(s) == ParseFloat(s).err # "nil"

\* the zero value of ticker.Price
ZeroPrice ==
    [Pair |-> <<>>, Ask |-> "0", Bid |-> "0", Low |-> "0", Last |-> "0",
     Volume |-> "0", High |-> "0"]

\* the fields of the ANX response in the order UpdateTicker converts them,
\* each with the field of ticker.Price it fills
ANXFields ==
    <<[from |-> "Sell", to |-> "Ask"],    [from |-> "Buy",  to |-> "Bid"],
      [from |-> "Low",  to |-> "Low"],    [from |-> "Last", to |-> "Last"],
      [from |-> "Vol",  to |-> "Volume"], [from |-> "High", to |-> "High"]>>

RECURSIVE ANXConvertLogging(_, _, _)
\* a variant that keeps going after a field that fails to parse
ANXConvertLogging(tick, tickerPrice, i) ==
    IF i > Len(ANXFields) THEN [price |-> tickerPrice, err |-> "nil"]
    ELSE LET text == tick[ANXFields[i].from]
             to   == ANXFields[i].to
         IN  ANXConvertLogging(tick,
                 [tickerPrice EXCEPT ![to] =
                      IF ParseFails(text) THEN "0" ELSE ParseFloat(text).f],
                 i + 1)

RECURSIVE ANXConvert(_, _, _)
\* anx_wrapper.go 81-134: field i and the fields after it
ANXConvert(tick, tickerPrice, i) ==
    IF i > Len(ANXFields) THEN [price |-> tickerPrice, err |-> "nil"]
    ELSE LET text == tick[ANXFields[i].from]
             to   == ANXFields[i].to
         IN  IF text # ""
             THEN IF ParseFails(text)
                  THEN [price |-> [tickerPrice EXCEPT ![to] = ParseFloat(text).f],
                        err   |-> ParseFloat(text).err]
                  ELSE ANXConvert(tick,
                           [tickerPrice EXCEPT ![to] = ParseFloat(text).f], i + 1)
             ELSE ANXConvert(tick, [tickerPrice EXCEPT ![to] = "0"], i + 1)

\* the ANX responses of the model: every field a number, but one
GoodTick ==
    [Sell |-> "1.5", Buy |-> "1.5", Low |-> "1.5", Last |-> "1.5",
     Vol |-> "1.5", High |-> "1.5"]
ANXTicks ==
    {[GoodTick EXCEPT ![ANXFields[i].from] = t] :
        i \in 1..Len(ANXFields), t \in FieldTexts}

\* the record of a call of SpecParse
ParseCall(op, p, assetType, liveOK, response, err, processed, result) ==
    [op |-> op, p |-> p, assetType |-> assetType, liveOK |-> liveOK,
     response |-> response, err |-> err, processed |-> processed,
     result |-> result]

\* ANX.UpdateTicker, anx_wrapper.go 71-136
ANXUpdateTicker(p, assetType, liveOK, tick) ==
    /\ exch = "ANX"
    /\ IF ~liveOK
       THEN /\ fetchCall' = ParseCall("UpdateTicker", p, assetType, liveOK, tick,
                                      "live call", FALSE, ZeroPrice)
            /\ UNCHANGED tickers
       ELSE \E c \in {ANXConvert(tick, [ZeroPrice EXCEPT !.Pair = p], 1)} :
               IF c.err # "nil"
               THEN /\ fetchCall' = ParseCall("UpdateTicker", p, assetType,
                                              liveOK, tick, c.err, FALSE, c.price)
                    /\ UNCHANGED tickers
               ELSE /\ tickers' = Process(tickers, p, c.price, assetType)
                    /\ fetchCall' = ParseCall("UpdateTicker", p, assetType,
                                              liveOK, tick, "nil", TRUE, c.price)
    /\ UNCHANGED <<orderbooks, liveCount>>

\* one [price, amount] entry of the ItBit response converted, part_000 80-101
ItBitItem(data) ==
    [Price |-> ParseFloat(data[1]).f, Amount |-> ParseFloat(data[2]).f]

\* the ItBit responses of the model: at most one bid and at most one ask,
\* its price or its amount any of the texts
ItBitSides ==
    {<<>>} \cup {<<<<t, "1.5">>>> : t \in FieldTexts}
           \cup {<<<<"1.5", t>>>> : t \in FieldTexts}

\* ItBit.UpdateOrderbook, part_000 71-108
ItBitUpdateOrderbook(p, assetType, liveOK, bids, asks) ==
    /\ exch = "ItBit"
    /\ IF ~liveOK
       THEN /\ fetchCall' = ParseCall("UpdateOrderbook", p, assetType, liveOK,
                                      [Bids |-> bids, Asks |-> asks],
                                      "live call", FALSE,
                                      [Bids |-> <<>>, Asks |-> <<>>])
            /\ UNCHANGED orderbooks
       ELSE \E orderBook \in
                 {[Bids |-> [x \in 1..Len(bids) |-> ItBitItem(bids[x])],
                   Asks |-> [x \in 1..Len(asks) |-> ItBitItem(asks[x])]]} :
               /\ orderbooks' = Process(orderbooks, p, orderBook, assetType)
               /\ fetchCall' = ParseCall("UpdateOrderbook", p, assetType, liveOK,
                                         [Bids |-> bids, Asks |-> asks],
                                         "nil", TRUE, orderBook)
    /\ UNCHANGED <<tickers, liveCount>>

\* the pair the updates of SpecParse are called for
ParsePairs == {Symbol(BTC, Dash, USD)}

InitParse ==
    /\ exch \in ParseConnectors
    /\ autoPairUpdates = FALSE
    /\ run = [pc |-> 0]
    /\ PairsIdle /\ CacheIdle /\ PermIdle /\ BaseIdle /\ ReadIdle
    /\ LimitIdle
    /\ StartIdle
    /\ OrderIdle

CallANXUpdateTicker ==
    \E p \in ParsePairs, assetType \in {Spot}, liveOK \in BOOLEAN,
       tick \in ANXTicks :
        ANXUpdateTicker(p, assetType, liveOK, tick)

CallItBitUpdateOrderbook ==
    \E p \in ParsePairs, assetType \in {Spot}, liveOK \in BOOLEAN,
       bids \in ItBitSides, asks \in ItBitSides :
        ItBitUpdateOrderbook(p, assetType, liveOK, bids, asks)

NextParse ==
    \/ CallANXUpdateTicker
          /\ UNCHANGED <<permVars, pairVars, runVars, baseVars, readVars,
                         limitVars, startVars, orderVars>>
    \/ CallItBitUpdateOrderbook
          /\ UNCHANGED <<permVars, pairVars, runVars, baseVars, readVars,
                         limitVars, startVars, orderVars>>

SpecParse == InitParse /\ [][NextParse]_vars

----------------------------------------------------------------------------
(* SpecLimit: requests and refills on the buckets of two exchanges         *)

InitLimit ==
    /\ buckets = [e \in LimitedExchanges |->
                     NewRequester(LimiterRates[e].auth, LimiterRates[e].unauth)]
    /\ limitCall = NoCall
    /\ PermIdle /\ PairsIdle /\ RunIdle /\ CacheIdle /\ BaseIdle /\ ReadIdle
    /\ StartIdle
    /\ OrderIdle

CallSendPayload ==
    \E e \in LimitedExchanges, l \in Limiters : SendPayload(e, l)

CallRefill ==
    \E e \in LimitedExchanges, l \in Limiters : Refill(e, l)

NextLimit ==
    \/ CallSendPayload
          /\ UNCHANGED <<permVars, pairVars, runVars, cacheVars, baseVars,
                         readVars, startVars, orderVars>>
    \/ CallRefill
          /\ UNCHANGED <<permVars, pairVars, runVars, cacheVars, baseVars,
                         readVars, startVars, orderVars>>

SpecLimit == InitLimit /\ [][NextLimit]_vars

----------------------------------------------------------------------------
(* SpecStart: the caller starts exchanges and waits; the tasks run.  The   *)
(* scheduler runs every task that can take a step, and a live call ends.   *)

InitStart ==
    /\ StartIdle
    /\ PermIdle /\ PairsIdle /\ RunIdle /\ CacheIdle /\ BaseIdle /\ ReadIdle
    /\ LimitIdle
    /\ OrderIdle

CallStartFirst == \E e \in StartedExchanges : StartFirst(e)
StepTaskEnter  == \E e \in StartedExchanges : TaskEnter(e)
StepTaskStep   == \E e \in StartedExchanges : TaskStep(e)
StepTaskFail   == \E e \in StartedExchanges : TaskFail(e)
StepTaskDone   == \E e \in StartedExchanges : TaskDone(e)

NextStart ==
    \/ CallStartFirst
          /\ UNCHANGED <<permVars, pairVars, runVars, cacheVars, baseVars,
                         readVars, limitVars, orderVars>>
    \/ StartSecond
          /\ UNCHANGED <<permVars, pairVars, runVars, cacheVars, baseVars,
                         readVars, limitVars, orderVars>>
    \/ StepTaskEnter
          /\ UNCHANGED <<permVars, pairVars, runVars, cacheVars, baseVars,
                         readVars, limitVars, orderVars>>
    \/ StepTaskStep
          /\ UNCHANGED <<permVars, pairVars, runVars, cacheVars, baseVars,
                         readVars, limitVars, orderVars>>
    \/ StepTaskFail
          /\ UNCHANGED <<permVars, pairVars, runVars, cacheVars, baseVars,
                         readVars, limitVars, orderVars>>
    \/ StepTaskDone
          /\ UNCHANGED <<permVars, pairVars, runVars, cacheVars, baseVars,
                         readVars, limitVars, orderVars>>
    \/ Wait
          /\ UNCHANGED <<permVars, pairVars, runVars, cacheVars, baseVars,
                         readVars, limitVars, orderVars>>
    \/ WaitReturn
          /\ UNCHANGED <<permVars, pairVars, runVars, cacheVars, baseVars,
                         readVars, limitVars, orderVars>>

TaskFairness ==
    \A e \in StartedExchanges :
        /\ WF_startVars(TaskEnter(e))
        /\ WF_startVars(TaskStep(e))
        /\ WF_startVars(TaskDone(e))

SpecStart ==
    InitStart /\ [][NextStart]_vars /\ TaskFairness /\ WF_startVars(WaitReturn)

----------------------------------------------------------------------------
(* Properties of SupportsWithdrawPermissions (SpecPerm)                    *)

\* C1: SupportsWithdrawPermissions(p) returns true exactly when every bit
\* set in the requested mask p is set in the granted mask g stored in
\* APIWithdrawPermissions, that is when (p AND g) = p; the empty request
\* p = 0 is supported whatever g is.
C1_SupportedIffRequestedBitsGranted ==
    permCall.op = "SupportsWithdrawPermissions" =>
        /\ permCall.result
              = (BitsOf(permCall.permissions) \subseteq BitsOf(APIWithdrawPermissions))
        /\ permCall.result
              = (And32(permCall.permissions, APIWithdrawPermissions)
                    = permCall.permissions)
        /\ (permCall.permissions = NoAPIWithdrawalMethods => permCall.result)

\* a request holding bit 31 and a low bit, refused because bit 31 is not
\* granted although the low bit is
C1_RefusedOnHighBit ==
    /\ permCall.op = "SupportsWithdrawPermissions"
    /\ BitsOf(permCall.permissions) = {0, 31}
    /\ BitsOf(APIWithdrawPermissions) = {0, 1, 17}
    /\ ~permCall.result

----------------------------------------------------------------------------
(* Properties of UpdateCurrencies (SpecPairs)                              *)

\* the last operation was an UpdateCurrencies call that got past the test
\* on the empty list
Reconciled ==
    /\ call.op = "UpdateCurrencies"
    /\ call.err # "exchangeProducts is empty"

\* the set the `enabled` flag of the last call selects, before and after it
KnownBefore ==
    IF call.enabled THEN call.pre.EnabledPairs ELSE call.pre.AvailablePairs
KnownAfter == IF call.enabled THEN EnabledPairs ELSE AvailablePairs
KnownInConfig == IF call.enabled THEN cfg.EnabledPairs ELSE cfg.AvailablePairs
OtherBefore ==
    IF call.enabled THEN call.pre.AvailablePairs ELSE call.pre.EnabledPairs
OtherAfter == IF call.enabled THEN AvailablePairs ELSE EnabledPairs

\* a symbol of the fetched list with no "," in it
Plain(s) == ~StringContains(s, Comma)
\* upper-casing entry by entry, empty entries left out
UpperNonEmpty(list) ==
    [i \in 1..Len(SelectSeq(list, LAMBDA s : s # EmptyString)) |->
        StringToUpper(SelectSeq(list, LAMBDA s : s # EmptyString)[i])]

\* C2: the diff of UpdateCurrencies is taken against the pair set the
\* `enabled` flag selects: newPairs holds exactly the normalized fetched
\* symbols that are absent from that set, removedPairs exactly the symbols
\* of that set that are absent from the normalized fetched list.
C2_DiffAgainstSelectedSet ==
    Reconciled =>
        /\ Range(call.newPairs) = Range(call.products) \ Range(KnownBefore)
        /\ Range(call.removedPairs) = Range(KnownBefore) \ Range(call.products)

\* known enabled = {BTC_USD, ETH_USD}, fetched = {btc_usd, ltc_usd}, the
\* available set being another one: newPairs = {LTC_USD}, removedPairs =
\* {ETH_USD}
C2_OneNewOneRemoved ==
    /\ Reconciled
    /\ call.enabled
    /\ call.pre.EnabledPairs
          = <<Symbol(BTC, Underscore, USD), Symbol(ETH, Underscore, USD)>>
    /\ call.pre.AvailablePairs # call.pre.EnabledPairs
    /\ call.exchangeProducts
          = <<Symbol(btc, Underscore, usd), Symbol(ltc, Underscore, usd)>>
    /\ call.newPairs = <<Symbol(LTC, Underscore, USD)>>
    /\ call.removedPairs = <<Symbol(ETH, Underscore, USD)>>

\* C3: a call with force = true and a non-empty product list performs the
\* persistence write (UpdateExchangeConfig is called once) whenever the
\* exchange config can be looked up, also when newPairs and removedPairs
\* are both empty.
C3_ForcedCallWrites ==
    ( /\ call.op = "UpdateCurrencies"
      /\ call.force
      /\ Len(call.exchangeProducts) > 0
      /\ ~GetExchangeConfigFails(call.pre.cfg) )
    => (call.lookups = 1 /\ call.writes = 1)

\* a forced call whose fetched list equals the known set, and its write
C3_ForcedWriteOnEmptyDiff ==
    /\ Reconciled
    /\ call.force
    /\ Len(call.products) > 0
    /\ call.newPairs = <<>> /\ call.removedPairs = <<>>
    /\ call.writes = 1
    /\ call.err = "nil"

\* C4: a call with force = false whose diff is empty (the normalized
\* fetched list equals the known set: no newPairs, no removedPairs) looks
\* up and writes nothing, leaves both pair sets of the profile and the
\* config entry as they were and returns no error; this holds for every
\* such call, however many came before it.
C4_UnforcedEmptyDiffIsSilent ==
    ( /\ Reconciled
      /\ ~call.force
      /\ call.newPairs = <<>> /\ call.removedPairs = <<>> )
    => ( /\ Range(call.products) = Range(KnownBefore)
         /\ call.lookups = 0 /\ call.writes = 0
         /\ EnabledPairs = call.pre.EnabledPairs
         /\ AvailablePairs = call.pre.AvailablePairs
         /\ cfg = call.pre.cfg
         /\ call.err = "nil" )

\* an unforced call that fetches again the three pairs an earlier call
\* stored
C4_RepeatedFetchOfStoredList ==
    /\ Reconciled
    /\ ~call.force
    /\ call.newPairs = <<>> /\ call.removedPairs = <<>>
    /\ Len(KnownBefore) = 3
    /\ call.products = KnownBefore
    /\ call.writes = 0
    /\ call.err = "nil"

\* C5: whenever UpdateCurrencies commits, the list it stores is the fetched
\* list in upper case with the empty entries dropped: no stored symbol is
\* empty, none holds a lower-case letter, the stored list joined by ","
\* is the upper-cased join of the non-empty fetched entries, and for
\* fetched symbols without "," the stored list is the fetched one entry by
\* entry.
C5_StoredListIsNormalized ==
    (Reconciled /\ call.assigned) =>
        /\ \A i \in 1..Len(KnownAfter) :
              /\ KnownAfter[i] # EmptyString
              /\ \A k \in 1..Len(KnownAfter[i]) : ~IsLowerChar(KnownAfter[i][k])
        /\ JoinStrings(KnownAfter, Comma)
              = StringToUpper(JoinStrings(
                    SelectSeq(call.exchangeProducts, LAMBDA s : s # EmptyString),
                    Comma))
        /\ (\A i \in 1..Len(call.exchangeProducts) :
                Plain(call.exchangeProducts[i]))
              => KnownAfter = UpperNonEmpty(call.exchangeProducts)

\* fetched ["btc_usd", "ltc_usd", ""] stored as the available pairs
\* {BTC_USD, LTC_USD}
C5_LowerCaseAndEmptyStored ==
    /\ Reconciled /\ call.assigned
    /\ ~call.enabled
    /\ call.exchangeProducts
          = <<Symbol(btc, Underscore, usd), Symbol(ltc, Underscore, usd),
              EmptyString>>
    /\ AvailablePairs
          = <<Symbol(BTC, Underscore, USD), Symbol(LTC, Underscore, USD)>>

\* C6: when UpdateCurrencies commits, the pair set the `enabled` flag
\* selects is replaced by exactly the normalized fetched list, in the
\* profile and, the write done, in the persisted config; no known pair that
\* is absent from the fetched list survives, and the other set is left as
\* it was.
C6_CommitReplacesSelectedSet ==
    (Reconciled /\ call.assigned) =>
        /\ KnownAfter = call.products
        /\ Range(KnownBefore) \cap Range(KnownAfter) \subseteq Range(call.products)
        /\ OtherAfter = OtherBefore
        /\ (call.err = "nil" =>
               /\ KnownInConfig = JoinStrings(call.products, Comma)
               /\ SelectSeq(SplitStrings(KnownInConfig, Comma),
                            LAMBDA s : s # EmptyString) = KnownAfter)

\* a commit that drops a known pair: ETH_USD was known, is not fetched, and
\* is in neither the profile nor the config afterwards
C6_KnownPairDropped ==
    /\ Reconciled /\ call.assigned /\ call.err = "nil"
    /\ StringDataCompare(KnownBefore, Symbol(ETH, Underscore, USD))
    /\ Len(call.products) > 0
    /\ ~StringDataCompare(KnownAfter, Symbol(ETH, Underscore, USD))
    /\ ~StringContains(KnownInConfig, Symbol(ETH, Underscore, USD))


----------------------------------------------------------------------------
(* Properties of the connectors' Run (SpecRun)                             *)

\* Run has been entered
Running == run.pc > 0

\* C7: if the live fetch of the pair list fails during a connector's Run,
\* the enabled pairs and the available pairs of that exchange, in the
\* profile and in the persisted config, are what they were when Run was
\* entered, also when the stored pairs lack the delimiter and the forced
\* upgrade is detected.
C7_FailedFetchLeavesPairsUntouched ==
    (Running /\ run.fetch = "failed") =>
        /\ EnabledPairs = run.pre.EnabledPairs
        /\ AvailablePairs = run.pre.AvailablePairs
        /\ cfg.EnabledPairs = run.pre.cfg.EnabledPairs
        /\ cfg.AvailablePairs = run.pre.cfg.AvailablePairs

\* C8: whenever the FetchTradablePairs call of a connector's
\* UpdateTradablePairs fails, UpdateTradablePairs returns a non-nil error
\* and does not call UpdatePairs.
C8_FetchErrorIsReturned ==
    (Running /\ exch \in HasUpdateTradablePairs /\ run.fetch = "failed") =>
        /\ run.utp = "error"
        /\ run.updates = 0

\* the reset of the enabled pairs has been made on a profile whose config
\* entry can be looked up
ResetMade == Running /\ run.resets = 1 /\ ~GetExchangeConfigFails(cfg)

DefaultCount(e) ==
    CASE e = "WEX" -> 4
      [] e = "ANX" -> 13
      [] OTHER     -> 1
DefaultFirst(e) ==
    CASE e = "Binance" -> Symbol(BTC, Dash, USDT)
      [] e = "Kraken"  -> Symbol(XBT, Dash, USD)
      [] e = "Bittrex" -> Symbol(USDT, Dash, BTC)
      [] OTHER         -> Symbol(BTC, Delimiter(e), USD)

----------------------------------------------------------------------------
(* Properties of the fetch-or-update pattern (SpecCache)                   *)

\* C10: FetchTicker / GetTickerPrice and FetchOrderbook / GetOrderbookEx
\* for a key (exchange, pair, assetType) make no live call and return the
\* cached value when the key is cached, and call the Update operation
\* exactly once when the key is not cached.
C10_CachedOrOneUpdate ==
    fetchCall.op \in {"FetchTicker", "FetchOrderbook"} =>
        IF fetchCall.cached
        THEN /\ fetchCall.liveCalls = 0
             /\ fetchCall.updateCalls = 0
             /\ fetchCall.err = "nil"
             /\ fetchCall.result = fetchCall.cachedValue
        ELSE fetchCall.updateCalls = 1


\* the last operation ran an update whose live call succeeded
LiveCallSucceeded ==
    /\ fetchCall.op \in {"FetchTicker", "UpdateTicker", "FetchOrderbook",
                         "UpdateOrderbook"}
    /\ fetchCall.liveCalls = 1
    /\ fetchCall.err # "live call"

\* C11: whenever the live call inside UpdateTicker(p, assetType) or
\* UpdateOrderbook(p, assetType) succeeds, the value returned is the
\* snapshot this call built from the live response and processed for key
\* (exchange, p, assetType): no cache miss, no older snapshot.
C11_UpdateReturnsItsSnapshot ==
    LiveCallSucceeded =>
        /\ fetchCall.err = "nil"
        /\ fetchCall.result = Snapshot(fetchCall.p, liveCount)
        /\ IF fetchCall.op \in {"FetchTicker", "UpdateTicker"}
           THEN /\ Cached(tickers, fetchCall.p, fetchCall.assetType)
                /\ tickers[Key(fetchCall.p, fetchCall.assetType)]
                      = fetchCall.result
           ELSE /\ Cached(orderbooks, fetchCall.p, fetchCall.assetType)
                /\ orderbooks[Key(fetchCall.p, fetchCall.assetType)]
                      = fetchCall.result

\* C12: for every connector and every asset type, the cache lookup of the
\* Fetch operation uses the key (exchange, requested pair, requested
\* assetType), which is the key its Update operation writes for that
\* request; so a Fetch updates exactly when the requested key is not
\* cached.
C12_FetchLooksUpTheRequestedKey ==
    fetchCall.op # "none" =>
        /\ fetchCall.lookupAsset = fetchCall.assetType
        /\ fetchCall.processAsset = fetchCall.assetType
        /\ fetchCall.op \in {"FetchTicker", "FetchOrderbook"}
              => (fetchCall.updateCalls = 0 <=> fetchCall.cached)

\* C13: SetClientProxyAddress is all-or-nothing: a call that returns an error
\* leaves the proxy of the Requester and the proxy of the Websocket as they
\* were before the call, and a call with the empty address returns no error
\* and changes nothing.
C13_ProxyChangeIsAllOrNothing ==
    baseCall.op = "SetClientProxyAddress" =>
        /\ baseCall.err # "nil" =>
              /\ profile.RequesterProxy = baseCall.pre.RequesterProxy
              /\ profile.WebsocketProxy = baseCall.pre.WebsocketProxy
        /\ baseCall.addr = NoProxy =>
              /\ baseCall.err = "nil"
              /\ profile = baseCall.pre

\* C14: a reader of the enabled and available pair sets that runs beside a
\* connector's Run sees, once Run has returned, either the sets as they were
\* when Run was entered or the sets as Run left them, never a mix of the two
\* and never a partly written set.
C14_ReaderSeesPreOrPost ==
    Step = "returned" =>
        \/ /\ reader.readEnabled => reader.enabled = run.pre.EnabledPairs
           /\ reader.readAvailable => reader.available = run.pre.AvailablePairs
        \/ /\ reader.readEnabled => reader.enabled = EnabledPairs
           /\ reader.readAvailable => reader.available = AvailablePairs

\* C15: if UpdateCurrencies returns an error, whether from the config lookup
\* or from the persistence write, the enabled pairs and the available pairs
\* of the profile are what they were before the call.
C15_ErrorLeavesProfileSets ==
    (call.op = "UpdateCurrencies" /\ call.err # "nil") =>
        /\ EnabledPairs = call.pre.EnabledPairs
        /\ AvailablePairs = call.pre.AvailablePairs

\* C16: SetAPIURL returns an error when the primary or the secondary URL of
\* the configuration is empty and then leaves APIUrl and APIUrlSecondary as
\* they were; when it returns no error, a URL equal to the non-default
\* placeholder leaves the profile's URL as it was and any other URL replaces
\* it.
C16_SetAPIURLSkipsPlaceholder ==
    baseCall.op = "SetAPIURL" =>
        IF baseCall.ec.APIURL = "" \/ baseCall.ec.APIURLSecondary = ""
        THEN /\ baseCall.err # "nil"
             /\ profile.APIUrl = baseCall.pre.APIUrl
             /\ profile.APIUrlSecondary = baseCall.pre.APIUrlSecondary
        ELSE /\ baseCall.err = "nil"
             /\ profile.APIUrl =
                   IF baseCall.ec.APIURL = APIURLNonDefaultMessage
                   THEN baseCall.pre.APIUrl ELSE baseCall.ec.APIURL
             /\ profile.APIUrlSecondary =
                   IF baseCall.ec.APIURLSecondary = APIURLNonDefaultMessage
                   THEN baseCall.pre.APIUrlSecondary
                   ELSE baseCall.ec.APIURLSecondary

\* a call that carries the placeholder as primary URL and a real secondary
\* URL, on a profile whose primary URL was configured earlier
C16_PlaceholderKeptOtherStored ==
    /\ baseCall.op = "SetAPIURL"
    /\ baseCall.err = "nil"
    /\ baseCall.ec.APIURL = APIURLNonDefaultMessage
    /\ baseCall.ec.APIURLSecondary = "https://api.one"
    /\ baseCall.pre.APIUrl = "https://api.one"
    /\ baseCall.pre.APIUrlSecondary = DefaultBase.APIUrlSecondary
    /\ profile.APIUrl = "https://api.one"
    /\ profile.APIUrlSecondary = "https://api.one"

\* C17: Setup with a configuration whose Enabled is false sets the
\* profile's Enabled to false, returns no error and changes no other field;
\* SetEnabled changes Enabled and nothing else; IsEnabled returns the value
\* last set.
C17_DisabledSetupOnlyClearsEnabled ==
    /\ (baseCall.op = "Setup" /\ ~baseCall.ec.Enabled) =>
          /\ baseCall.err = "nil"
          /\ profile = [baseCall.pre EXCEPT !.Enabled = FALSE]
    /\ baseCall.op = "SetEnabled" =>
          profile = [baseCall.pre EXCEPT !.Enabled = baseCall.result]
    /\ baseCall.op = "IsEnabled" =>
          /\ baseCall.result = lastEnabled
          /\ profile = baseCall.pre

\* Setup with a disabled configuration whose URLs are empty, on an enabled
\* profile that holds a configured URL and a proxy
C17_DisabledSetupOnConfiguredProfile ==
    /\ baseCall.op = "Setup"
    /\ ~baseCall.ec.Enabled
    /\ baseCall.ec.APIURL = ""
    /\ baseCall.ec.ProxyAddress # NoProxy
    /\ baseCall.pre.Enabled
    /\ baseCall.pre.APIUrl = "https://api.one"
    /\ baseCall.pre.RequesterProxy # NoProxy
    /\ ~profile.Enabled

\* the last call was UpdateCurrencies or SetCurrencies with an empty list
EmptyListCall ==
    \/ call.op = "UpdateCurrencies" /\ Len(call.exchangeProducts) = 0
    \/ call.op = "SetCurrencies" /\ Len(call.pairs) = 0

\* C18: UpdateCurrencies and SetCurrencies called with an empty pair list
\* return an error before any config lookup, and leave the profile's pair
\* sets and the persisted config as they were.
C18_EmptyListRefusedBeforeLookup ==
    EmptyListCall =>
        /\ call.err \notin {"nil", "GetExchangeConfig", "UpdateExchangeConfig"}
        /\ call.lookups = 0
        /\ call.writes = 0
        /\ EnabledPairs = call.pre.EnabledPairs
        /\ AvailablePairs = call.pre.AvailablePairs
        /\ cfg = call.pre.cfg

\* SetCurrencies with the empty list on a profile whose config entry is
\* present and writable and whose enabled pairs an earlier call has replaced
C18_EmptySetCurrenciesOnWritableEntry ==
    /\ call.op = "SetCurrencies"
    /\ Len(call.pairs) = 0
    /\ ~UpdateExchangeConfigFails(cfg)
    /\ EnabledPairs = <<Symbol(BTC, Dash, USD)>>
    /\ call.err = "pairs is empty"

----------------------------------------------------------------------------
(* Properties of FormatWithdrawPermissions (SpecPerm)                      *)

Formatted == permCall.op = "FormatWithdrawPermissions"

\* C19: FormatWithdrawPermissions returns "NONE, WEBSITE ONLY" if and only
\* if the permission bitmask is 0.
C19_SentinelIffZeroMask ==
    Formatted =>
        (permCall.result = NoAPIWithdrawalMethodsText
            <=> APIWithdrawPermissions = NoAPIWithdrawalMethods)

\* the zero mask formatted
C19_ZeroMaskFormatted ==
    /\ Formatted
    /\ APIWithdrawPermissions = NoAPIWithdrawalMethods
    /\ permCall.result = NoAPIWithdrawalMethodsText

RECURSIVE Ascending(_)
\* the members of a set of naturals, smallest first
Ascending(S) ==
    IF S = {} THEN <<>>
    ELSE LET lo == CHOOSE x \in S : \A y \in S : x <= y
         IN  <<lo>> \o Ascending(S \ {lo})

\* the label of bit i: the fixed text of bits 0..17, UNKNOWN[1<<i] otherwise
LabelOfBit(i) ==
    IF i <= 17 THEN WithdrawalMethods[i + 1].text
    ELSE UnknownWithdrawalTypeText \o <<"[", "1", "<", "<">> \o Digits(i)
             \o <<"]">>

\* C20: for a non-zero bitmask the result holds one entry per set bit, in
\* ascending bit order, joined by " & " with no separator before the first
\* or after the last entry; bits 0..17 give their fixed labels and any other
\* set bit i gives UNKNOWN[1<<i]; a mask with one bit gives that bit's label
\* alone.
C20_OneLabelPerSetBitAscending ==
    (Formatted /\ APIWithdrawPermissions # NoAPIWithdrawalMethods) =>
        LET bits    == Ascending(BitsOf(APIWithdrawPermissions))
            entries == SplitStrings(permCall.result, Ampersand)
        IN  /\ Len(entries) = Len(bits)
            /\ \A k \in 1..Len(bits) : entries[k] = LabelOfBit(bits[k])
            /\ Len(bits) = 1 => permCall.result = LabelOfBit(bits[1])

\* a mask with two labelled bits and an unlabelled one above them,
\* formatted
C20_LabelledAndUnknownBits ==
    /\ Formatted
    /\ BitsOf(APIWithdrawPermissions) = {0, 17, 31}
    /\ permCall.result =
          LabelOfBit(0) \o Ampersand \o LabelOfBit(17) \o Ampersand
              \o UnknownWithdrawalTypeText \o <<"[", "1", "<", "<", "3", "1", "]">>

----------------------------------------------------------------------------
(* Drift between the two pair sets (SpecPairs)                             *)

\* C21: after a reconciliation of the available pairs commits
\* (UpdateCurrencies with enabled = false that stored its list and returned
\* no error), every enabled pair is one of the available pairs.
C21_EnabledWithinAvailableAfterCommit ==
    (call.op = "UpdateCurrencies" /\ ~call.enabled /\ call.assigned
        /\ call.err = "nil") =>
        \A i \in 1..Len(EnabledPairs) :
            \E j \in 1..Len(AvailablePairs) : AvailablePairs[j] = EnabledPairs[i]

----------------------------------------------------------------------------
(* Fields that fail to parse (SpecParse)                                   *)

\* the ANX fields of the last response that hold a text which is not a
\* float64
ANXFailedFields ==
    {i \in 1..Len(ANXFields) :
        /\ fetchCall.response[ANXFields[i].from] # ""
        /\ ParseFails(fetchCall.response[ANXFields[i].from])}

\* the side of an orderbook has value 0 wherever the text failed to parse
ZeroWhereFailed(items, texts) ==
    /\ Len(items) = Len(texts)
    /\ \A x \in 1..Len(texts) :
          /\ ParseFails(texts[x][1]) => items[x].Price = "0"
          /\ ParseFails(texts[x][2]) => items[x].Amount = "0"

\* C22: when the live call of an UpdateTicker or UpdateOrderbook succeeds, a
\* numeric field of the response that fails to parse is set to zero and the
\* update goes on: the snapshot is processed into the cache and returned,
\* and the operation returns no error.
C22_ParseFailureZeroedNotReturned ==
    /\ (fetchCall.op = "UpdateTicker" /\ fetchCall.liveOK) =>
          /\ fetchCall.err = "nil"
          /\ fetchCall.processed
          /\ Cached(tickers, fetchCall.p, fetchCall.assetType)
          /\ tickers[Key(fetchCall.p, fetchCall.assetType)] = fetchCall.result
          /\ \A i \in ANXFailedFields : fetchCall.result[ANXFields[i].to] = "0"
    /\ (fetchCall.op = "UpdateOrderbook" /\ fetchCall.liveOK) =>
          /\ fetchCall.err = "nil"
          /\ fetchCall.processed
          /\ Cached(orderbooks, fetchCall.p, fetchCall.assetType)
          /\ orderbooks[Key(fetchCall.p, fetchCall.assetType)] = fetchCall.result
          /\ ZeroWhereFailed(fetchCall.result.Bids, fetchCall.response.Bids)
          /\ ZeroWhereFailed(fetchCall.result.Asks, fetchCall.response.Asks)

----------------------------------------------------------------------------
(* Properties of the rate limiters (SpecLimit)                             *)

----------------------------------------------------------------------------
(* Properties of Start and Wait (SpecStart)                                *)

\* the exchanges counted in the wait group and not yet done
Counted ==
    {e \in StartedExchanges :
        /\ e \in main.started \/ (e = main.cur /\ StartSteps[1] = "add")
        /\ tasks[e].state # "done"}

StartCountsTasks ==
    /\ wg = Cardinality(Counted)
    /\ \A e \in StartedExchanges :
          /\ tasks[e].dones = (IF tasks[e].state = "done" THEN 1 ELSE 0)
          /\ tasks[e].state # "none" => e \in main.started
    /\ main.wait = "returned" =>
          \A e \in main.started : tasks[e].state = "done"

\* C24: the counter is incremented before the task is launched and
\* decremented once, after the exchange's Run has returned, so the counter
\* is the number of started exchanges whose task is not done; a Wait that
\* has returned found every started exchange's Run returned; a Wait that is
\* issued does return; and every launched task reaches its end whatever the
\* other tasks' fetches and writes did.
C24_WaitReturnsAfterEveryRun ==
    /\ [](StartCountsTasks)
    /\ (main.wait = "waiting") ~> (main.wait = "returned")
    /\ \A e \in StartedExchanges :
          (tasks[e].state = "launched") ~> (tasks[e].state = "done")

\* Start has returned on all three exchanges and Wait is issued while no
\* task has entered Run yet
C24_StartReturnedBeforeRun ==
    /\ main.started = StartedExchanges
    /\ main.wait = "waiting"
    /\ wg = 3
    /\ \A e \in StartedExchanges : tasks[e].state = "launched"

\* Wait has returned although one exchange's fetch and another's write failed
C24_WaitReturnedDespiteFailures ==
    /\ main.wait = "returned"
    /\ tasks["OKEX"].failed = "fetch"
    /\ tasks["Binance"].failed = "update"
    /\ tasks["ZB"].state = "done"

----------------------------------------------------------------------------
(* Properties of the batch UpdateTicker (SpecBatch)                        *)

\* C25: after a batch UpdateTicker whose live call succeeded, an enabled
\* pair for which the response holds no entry has the cache entry it had
\* before the call (none if it had none): only pairs of the response are
\* written.
C25_MissingPairKeepsCachedTicker ==
    (fetchCall.op = "BatchUpdateTicker" /\ fetchCall.live.ok) =>
        \A i \in 1..Len(EnabledPairs) :
            EnabledPairs[i] \notin fetchCall.live.listed =>
                /\ Cached(tickers, EnabledPairs[i], fetchCall.assetType)
                      = Cached(fetchCall.pre, EnabledPairs[i],
                               fetchCall.assetType)
                /\ Lookup(tickers, EnabledPairs[i], fetchCall.assetType)
                      = Lookup(fetchCall.pre, EnabledPairs[i],
                               fetchCall.assetType)

----------------------------------------------------------------------------
(* Properties of ZB's GetOrderbook (SpecBook)                              *)

\* C26: when the response holds at least one ask and one bid, GetOrderbook
\* returns as many asks as the response holds, and the returned ask at Go
\* index i is the response's ask at index len-1-i.
C26_AsksReversedNoneLost ==
    (/\ fetchCall.op = "ZBUpdateOrderbook"
     /\ fetchCall.res.ok
     /\ Len(fetchCall.res.Asks) >= 1
     /\ Len(fetchCall.res.Bids) >= 1) =>
        /\ fetchCall.got.err = "nil"
        /\ Len(fetchCall.got.Asks) = Len(fetchCall.res.Asks)
        /\ \A i \in 0..(Len(fetchCall.res.Asks) - 1) :
              fetchCall.got.Asks[i + 1]
                 = fetchCall.res.Asks[(Len(fetchCall.res.Asks) - 1 - i) + 1]

----------------------------------------------------------------------------
(* Properties of Gateio's CancelAllOrders (SpecCancel)                     *)

\* the distinct pairs among the open orders
DistinctPairs(orders) == {orders[i] : i \in 1..Len(orders)}

\* C27: when GetOpenOrders succeeds, CancelAllOrders returns, whatever the
\* number of open orders; it calls CancelAllExistingOrders at most once per
\* distinct pair of the open orders; it returns nil exactly when every pair
\* was called and no call failed, and otherwise the error of its last call,
\* the only one that failed.
C27_CancelAllOrdersTerminates ==
    (orderCall.op = "CancelAllOrders" /\ orderCall.open.ok) =>
        LET calls == orderCall.calls
            made  == {calls[i] : i \in 1..Len(calls)}
        IN  /\ orderCall.outcome = "returned"
            /\ Cardinality(made) = Len(calls)
            /\ made \subseteq DistinctPairs(orderCall.open.orders)
            /\ \A i \in 1..(Len(calls) - 1) : calls[i] \notin orderCall.failing
            /\ IF orderCall.err = "nil"
               THEN /\ made = DistinctPairs(orderCall.open.orders)
                    /\ made \cap orderCall.failing = {}
               ELSE /\ Len(calls) > 0
                    /\ calls[Len(calls)] \in orderCall.failing

----------------------------------------------------------------------------
(* Properties of repeated fetches (SpecFetch)                              *)

\* C28: a FetchTicker that directly follows a FetchTicker for the same pair
\* and asset type which missed the cache and whose update returned no
\* error is a cache hit, makes no live call and returns the ticker the
\* first one returned.
C28_SecondFetchIsCacheHit ==
    (/\ fetchCall.op = "FetchTicker"
     /\ fetchCall.prev.op = "FetchTicker"
     /\ fetchCall.prev.p = fetchCall.p
     /\ fetchCall.prev.assetType = fetchCall.assetType
     /\ ~fetchCall.prev.hit
     /\ fetchCall.prev.err = "nil") =>
        /\ fetchCall.hit
        /\ fetchCall.live = 0
        /\ fetchCall.err = "nil"
        /\ fetchCall.result = fetchCall.prev.result

----------------------------------------------------------------------------
(* Properties of SubmitOrder (SpecSubmit)                                  *)

\* C29: whatever the connector, the order type and the exchange's answer,
\* SubmitOrder returns IsOrderPlaced = true exactly when it returns a nil
\* error.
C29_PlacedIffNoError ==
    orderCall.op = "SubmitOrder" =>
        (orderCall.resp.IsOrderPlaced <=> orderCall.err = "nil")

\* CoinbasePro is given an order type it does not support, falls through to
\* its tail with the error set, and returns the order as not placed
C29_RejectedTypeNotPlaced ==
    /\ orderCall.op = "SubmitOrder"
    /\ orderCall.e = "CoinbasePro"
    /\ orderCall.orderType = "Stop"
    /\ orderCall.env.err = "nil"
    /\ orderCall.err = "not supported"
    /\ ~orderCall.resp.IsOrderPlaced

----------------------------------------------------------------------------
(* Properties of SetAPIKeys (SpecKeys)                                     *)

\* C30: a SetAPIKeys call on a profile whose AuthenticatedAPISupport is
\* false leaves the flag false and APIKey, APISecret and ClientID as they
\* were; a call turns the flag from true to false exactly when it is made
\* with b64Decode = true and the secret does not decode.
C30_AuthSupportOnlyFallsOnBadSecret ==
    baseCall.op = "SetAPIKeys" =>
        /\ ~baseCall.pre.AuthenticatedAPISupport => profile = baseCall.pre
        /\ (baseCall.pre.AuthenticatedAPISupport
                /\ ~profile.AuthenticatedAPISupport)
              <=> (/\ baseCall.pre.AuthenticatedAPISupport
                   /\ baseCall.b64Decode
                   /\ Base64Decode(baseCall.APISecret).err # "nil")

\* after a secret failed to decode, a further call with another key, a
\* good secret and another client id has changed nothing
C30_CallAfterBadSecretIgnored ==
    /\ baseCall.op = "SetAPIKeys"
    /\ ~baseCall.pre.AuthenticatedAPISupport
    /\ baseCall.pre.APIKey = "key-1"
    /\ baseCall.APIKey = "key-2"
    /\ baseCall.ClientID # profile.ClientID
    /\ baseCall.APISecret = "c2VjcmV0"
    /\ profile.APIKey = "key-1"
============================================================================
